---- MODULE Spec2Model ----
(***************************************************************************)
(* Model of the narrated-video pipeline of server/AutoVid.py               *)
(* (class VideoCreator): speech synthesis cascade, duration probe, clip    *)
(* download and normalization, concatenation, mux and the subtitle         *)
(* burn-in cascade, with the temporary directory and the output directory. *)
(*                                                                         *)
(* External tools (TTS engines, ffmpeg, ffprobe, HTTP, the file system)    *)
(* are the environment: every call draws its outcome from the outcomes the *)
(* code distinguishes.  Diagnostic output (print, decoding a failed        *)
(* command's stderr for the log) is taken to succeed.                      *)
(***************************************************************************)
EXTENDS Integers, Sequences, FiniteSets, TLC

\* ------------------------------------------------------------------ bounds
MaxClips == 3
MaxDuration == 2
MaxClock == 2
MaxWords == 5
MaxSeconds == 3
\* Width of the mantissa of the floats of generate_simple_subtitles.  Python's
\* floats have 53 bits; on the durations and chunk counts drawn here every
\* rounding at this width falls on the same side as at 53 bits.
MantissaBits == 17

\* ------------------------------------------------------- program constants
\* get_audio_duration: "return 30.0  # Default to 30 seconds"
DefaultDuration == 30

None == "None"

VARIABLES
    \* --- generate_speech (one call)
    tts_pc,        \* index in TTS_ORDER of the next backend; 0 once returned
    tts_avail,     \* backend -> module flag / client is available
    audio,         \* the file at output_path: [st, by]
    tts_log,       \* backends attempted so far, in order
    tts_ret,       \* return value of generate_speech
    tts_clean,     \* for each attempt: was output_path absent when it started
    tts_ok,        \* for each attempt: was its output verified
    tts_out,       \* for each attempt: how the backend call ended
    tts_left,      \* for each attempt: the file the backend call left behind
    \* --- create_video_with_narration (one call)
    pc,                 \* position in the method
    ffmpeg_available,   \* self.ffmpeg_available
    WHISPER_AVAILABLE,  \* module flag
    video_sources,      \* number of clip sources passed in (sources 1..n)
    temp_dir,           \* "none", "exists" or "removed"
    duration,           \* narration duration in seconds
    i,                  \* loop index of the download / process loops
    downloaded_video_paths,  \* source indices whose download succeeded
    clip_duration,      \* [num, den]: duration / clip_count
    processed_videos,   \* [src, dur] of each normalized clip
    concat_list,        \* what concat_list.txt holds
    outdir,             \* output directory: file name -> content
    subtitle,           \* [kind, exists, path]: the subtitle file in temp_dir
    attempted,          \* burn-in strategies run so far, in order
    result,             \* return value: None or an output file name
    exit_path,          \* which return statement ended the call
    dl_ok,              \* sources whose download_video returned True
    proc_ok,            \* sources whose process_video returned True
    muxed,              \* the mux command has succeeded
    concat_output,      \* temp_dir/concatenated.mp4: "absent", "partial", "video"
    \* --- invocations on concurrent worker threads, one output directory
    clock,         \* wall clock, in whole seconds
    run_pc,        \* thread -> position of its invocation
    run_ts,        \* thread -> the timestamp its invocation read
    run_files,     \* thread -> paths in the output directory it has written
    \* --- get_audio_duration (one call)
    gad_pc,        \* "idle", "call" or "returned"
    gad_ffmpeg,    \* self.ffmpeg_available
    gad_primary,   \* what ffprobe gives for the file
    gad_secondary, \* what "ffmpeg -i" gives for the file
    gad_ret,       \* what the call gave: [none, value, secondary, raised]
    \* --- generate_simple_subtitles (one call)
    srt_pc,        \* "idle", "call", "write" or "returned"
    srt_text,      \* the text: the lengths of its words, in order
    srt_duration,  \* duration, in seconds
    srt_chunks,    \* chunks: [len, words] each
    srt_i,         \* loop index of the write loop (entries written so far)
    srt_entries,   \* the entries written to the .srt file
    srt_ret,       \* return value: "unset", "path" or None
    \* --- download_video (one call)
    dv_pc,         \* "idle", "call" or "returned"
    dv_url,        \* the url argument: what kind of value it is
    dv_response,   \* what requests.get gives for the URL
    dv_body,       \* the body of the response
    dv_write,      \* how opening and writing output_path goes
    dv_ret,        \* what the call gave: [ret, raised, file]
    \* --- VideoCreator.__init__ (one construction)
    ctor_pc,       \* "idle", "search", "prompt", "finish", "constructed", "raised"
    ctor_working,  \* the entries of possible_paths whose "-version" run exits 0
    ctor_k,        \* position of the search loop in possible_paths
    ctor_path,     \* self.ffmpeg_path: "unset", None, "entry" (entry ctor_k) or "user"
    ctor_available,\* self.ffmpeg_available
    ctor_error,    \* the exception the constructor raised, or "none"
    \* --- POST /api/generate_video_from_custom_text (one request)
    ct_pc,         \* "idle", "call", "made" or "responded"
    ct_creator,    \* has_video_creator and video_creator is not None
    ct_outcome,    \* how making the file goes
    ct_keywords,   \* what extract_keywords gives
    ct_file,       \* the video (or placeholder) file exists in static/videos
    ct_videos,     \* the ids of the rows of the videos table
    ct_response,   \* the response: [status, success, video_url]
    \* --- GET /api/news_articles (one request answered from the news API)
    na_pc,         \* "idle", "store", "list" or "responded"
    na_batch,      \* articles_df: the articles, in order
    na_bad,        \* the articles whose INSERT raises
    na_hash,       \* int(str(abs(hash(url)))[-10:]) of each article
    na_k,          \* loop index
    na_ids,        \* added_ids / article_ids
    na_table,      \* the articles table: id -> article stored (0: no row)
    na_listing,    \* the "articles" of the response: [id, article] each
    \* --- create_video (one call)
    cv_pc,         \* "idle", "call" or "returned"
    cv_script,     \* the script: "empty" or "text"
    cv_videos,     \* the number of clips in the list
    cv_filename,   \* whether output_filename was given
    cv_inner,      \* what create_video_with_narration gives for these inputs
    cv_ret,        \* what the call gave: [value, raised]
    \* --- generate_script (one call)
    gs_pc,         \* "idle", "call" or "returned"
    gs_api,        \* whether the completion request answers: "ok" or "error"
    gs_script,     \* the stripped completion: its sentences, [words, closed] each
    gs_max_words,  \* the max_words argument
    gs_ret,        \* what the call gave: [kind, script]
    \* --- generate_ass_subtitles: one dialogue line
    as_pc,         \* "idle", "call" or "written"
    as_text,       \* the segment's stripped text: the lengths of its words
    as_lines,      \* the lines of the dialogue text: [len, words] each
    \* --- create_video_from_text (one run)
    vt_pc,         \* "idle", "script", "search", "speech", "create", "narration", "pipeline", "vertical" or "returned"
    vt_avail,      \* which speech backends are available
    vt_ffmpeg,     \* self.ffmpeg_available
    vt_videos,     \* len(selected_videos_raw)
    vt_speech,     \* what each generate_speech call of the run gave, in order
    vt_final,      \* final_video
    vt_ret,        \* the tuple returned: [video, error, len]
    \* --- POST /api/generate_script on the shared SimpleDB cursor
    db_pc,         \* per thread: where its request is
    db_req,        \* per thread: the article_id of its request
    db_rows,       \* db.cursor: the rows of the last query not fetched yet
    db_lastrowid,  \* db.cursor.lastrowid (0: None)
    db_scripts,    \* the scripts table: [article_id, by] per row, the id is the index
    db_article,    \* per thread: the id of the article it fetched (0: None)
    db_resp        \* per thread: its response: [status, script_id]

ttsVars == <<tts_pc, tts_avail, audio, tts_log, tts_ret, tts_clean, tts_ok,
             tts_out, tts_left>>

runVars == <<pc, ffmpeg_available, WHISPER_AVAILABLE, video_sources, temp_dir,
             duration, i, downloaded_video_paths, clip_duration,
             processed_videos, concat_list, outdir, subtitle, attempted,
             result, exit_path, dl_ok, proc_ok, muxed, concat_output>>

concVars == <<clock, run_pc, run_ts, run_files>>

probeVars == <<gad_pc, gad_ffmpeg, gad_primary, gad_secondary, gad_ret>>

srtVars == <<srt_pc, srt_text, srt_duration, srt_chunks, srt_i, srt_entries,
             srt_ret>>

\* The calls modelled on their own, next to the pipeline.
dvVars == <<dv_pc, dv_url, dv_response, dv_body, dv_write, dv_ret>>

ctorVars == <<ctor_pc, ctor_working, ctor_k, ctor_path, ctor_available,
              ctor_error>>

ctVars == <<ct_pc, ct_creator, ct_outcome, ct_keywords, ct_file, ct_videos,
            ct_response>>

naVars == <<na_pc, na_batch, na_bad, na_hash, na_k, na_ids, na_table,
            na_listing>>

cvVars == <<cv_pc, cv_script, cv_videos, cv_filename, cv_inner, cv_ret>>

gsVars == <<gs_pc, gs_api, gs_script, gs_max_words, gs_ret>>

asVars == <<as_pc, as_text, as_lines>>

vtVars == <<vt_pc, vt_avail, vt_ffmpeg, vt_videos, vt_speech, vt_final,
            vt_ret>>

dbVars == <<db_pc, db_req, db_rows, db_lastrowid, db_scripts, db_article,
            db_resp>>

\* The groups added after the endpoints.
lateVars == <<cvVars, gsVars, asVars, vtVars, dbVars>>

pureVars == <<probeVars, srtVars, dvVars, ctorVars, ctVars, naVars, lateVars>>

\* What a call modelled on its own leaves alone.
notProbe == <<ttsVars, runVars, concVars, srtVars, dvVars, ctorVars, ctVars,
              naVars, lateVars>>
notSrt == <<ttsVars, runVars, concVars, probeVars, dvVars, ctorVars, ctVars,
            naVars, lateVars>>
notDv == <<ttsVars, runVars, concVars, probeVars, srtVars, ctorVars, ctVars,
           naVars, lateVars>>
notCtor == <<ttsVars, runVars, concVars, probeVars, srtVars, dvVars, ctVars,
             naVars, lateVars>>
notCt == <<ttsVars, runVars, concVars, probeVars, srtVars, dvVars, ctorVars,
           naVars, lateVars>>
notNa == <<ttsVars, runVars, concVars, probeVars, srtVars, dvVars, ctorVars,
           ctVars, lateVars>>

\* Everything but the groups added after the endpoints.
earlyVars == <<ttsVars, runVars, concVars, probeVars, srtVars, dvVars, ctorVars,
               ctVars, naVars>>

notCv == <<earlyVars, gsVars, asVars, vtVars, dbVars>>

notGs == <<earlyVars, cvVars, asVars, vtVars, dbVars>>

notAs == <<earlyVars, cvVars, gsVars, vtVars, dbVars>>

notVt == <<earlyVars, cvVars, gsVars, asVars, dbVars>>

notDb == <<earlyVars, cvVars, gsVars, asVars, vtVars>>

vars == <<ttsVars, runVars, concVars, pureVars>>

\* =================================================================== TTS
Backends == {"elevenlabs", "pyttsx3", "gtts"}

\* The root-level revision of the class (src/AutoVid.py) tries gTTS first.
TTS_ORDER_gtts_first == <<"gtts", "pyttsx3", "elevenlabs">>

\* generate_speech: "Tries ElevenLabs first, then pyttsx3, then gTTS."
TTS_ORDER == <<"elevenlabs", "pyttsx3", "gtts">>

AbsentAudio == [st |-> "absent", by |-> "none"]

\* Outcomes of one backend call, as far as the code can tell them apart:
\*   ok           the backend wrote a complete, non-empty file
\*   empty        it returned normally and left a zero-byte file
\*   nowrite      it returned normally without touching the path
\*   raise        it raised before creating the file
\*   raisePartial it raised after writing part of the file
\* open(path, "wb") (ElevenLabs, gTTS.save) always creates the file, so only
\* pyttsx3 (save_to_file + runAndWait) can return without touching the path.
TtsOutcomes(b) ==
    IF b = "pyttsx3" THEN {"ok", "empty", "nowrite", "raise", "raisePartial"}
    ELSE {"ok", "empty", "raise", "raisePartial"}

\* The file at output_path after backend b ran with outcome o.
BackendWrites(b, o, a) ==
    CASE o = "ok"           -> [st |-> "full", by |-> b]
      [] o = "empty"        -> [st |-> "empty", by |-> b]
      [] o = "raisePartial" -> [st |-> "partial", by |-> b]
      [] OTHER              -> a

\* os.path.exists(output_path) alone
FileExists(a) == a.st # "absent"

\* os.path.exists(output_path) and os.path.getsize(output_path) > 0
FileVerified(a) == a.st \in {"partial", "full"}

Raised(o) == o \in {"raise", "raisePartial"}

\* generate_speech_elevenlabs: verify after the write; nothing is deleted.
generate_speech_elevenlabs(o, a) ==
    LET w == BackendWrites("elevenlabs", o, a)
    IN  [audio |-> w, ok |-> (~Raised(o)) /\ FileVerified(w)]

\* The pyttsx3 and gTTS blocks of generate_speech: verify after a normal
\* return, remove the file if the verification fails; an exception skips both.
InlineBackend(b, o, a) ==
    LET w == BackendWrites(b, o, a)
    IN  IF Raised(o) THEN [audio |-> w, ok |-> FALSE]
        ELSE IF FileVerified(w) THEN [audio |-> w, ok |-> TRUE]
        ELSE [audio |-> AbsentAudio, ok |-> FALSE]

Attempt(b, o, a) ==
    IF b = "elevenlabs" THEN generate_speech_elevenlabs(o, a)
    ELSE InlineBackend(b, o, a)

\* generate_speech as a function of the availability flags and of the
\* outcome each backend would have: [ok, log, audio].
RECURSIVE SpeechFrom(_, _, _, _, _)
SpeechFrom(k, avail, outs, a, log) ==
    IF k > Len(TTS_ORDER) THEN [ok |-> FALSE, log |-> log, audio |-> a]
    ELSE LET b == TTS_ORDER[k]
         IN  IF ~avail[b] THEN SpeechFrom(k + 1, avail, outs, a, log)
             ELSE LET r == Attempt(b, outs[b], a)
                  IN  IF r.ok
                      THEN [ok |-> TRUE, log |-> Append(log, b), audio |-> r.audio]
                      ELSE SpeechFrom(k + 1, avail, outs, r.audio, Append(log, b))

generate_speech(avail, outs) == SpeechFrom(1, avail, outs, AbsentAudio, <<>>)

TtsInit ==
    /\ tts_pc = 1
    /\ tts_avail \in [Backends -> BOOLEAN]
    /\ audio = AbsentAudio
    /\ tts_log = <<>>
    /\ tts_ret = "unset"
    /\ tts_clean = <<>>
    /\ tts_ok = <<>>
    /\ tts_out = <<>>
    /\ tts_left = <<>>

\* A backend whose flag is off is skipped.
SkipBackend ==
    /\ tts_pc \in 1..Len(TTS_ORDER)
    /\ ~tts_avail[TTS_ORDER[tts_pc]]
    /\ tts_pc' = tts_pc + 1
    /\ UNCHANGED <<tts_avail, audio, tts_log, tts_ret, tts_clean, tts_ok,
                   tts_out, tts_left>>
    /\ UNCHANGED <<runVars, concVars, pureVars>>

\* An available backend is attempted; a verified output ends the call.
TryBackend ==
    /\ tts_pc \in 1..Len(TTS_ORDER)
    /\ tts_avail[TTS_ORDER[tts_pc]]
    /\ \E o \in TtsOutcomes(TTS_ORDER[tts_pc]) :
         LET b == TTS_ORDER[tts_pc]
             r == Attempt(b, o, audio)
         IN  /\ audio' = r.audio
             /\ tts_log' = Append(tts_log, b)
             /\ tts_clean' = Append(tts_clean, audio.st = "absent")
             /\ tts_ok' = Append(tts_ok, r.ok)
             /\ tts_out' = Append(tts_out, o)
             /\ tts_left' = Append(tts_left, BackendWrites(b, o, audio).st)
             /\ IF r.ok
                THEN tts_pc' = 0 /\ tts_ret' = "True"
                ELSE tts_pc' = tts_pc + 1 /\ UNCHANGED tts_ret
    /\ UNCHANGED tts_avail
    /\ UNCHANGED <<runVars, concVars, pureVars>>

\* "All TTS generation methods failed." return False
AllBackendsFailed ==
    /\ tts_pc = Len(TTS_ORDER) + 1
    /\ tts_pc' = 0
    /\ tts_ret' = "False"
    /\ UNCHANGED <<tts_avail, audio, tts_log, tts_clean, tts_ok, tts_out,
                   tts_left>>
    /\ UNCHANGED <<runVars, concVars, pureVars>>

\* generate_speech is not running (the pipeline calls it as one step).
TtsIdle ==
    /\ tts_pc = 0
    /\ tts_avail = [b \in Backends |-> FALSE]
    /\ audio = AbsentAudio
    /\ tts_log = <<>>
    /\ tts_ret = "unset"
    /\ tts_clean = <<>>
    /\ tts_ok = <<>>
    /\ tts_out = <<>>
    /\ tts_left = <<>>

\* ================================================== get_audio_duration
ProbeFailures == {"raise", "empty", "badjson", "nofield", "nonnumeric"}

\* What ffprobe's JSON output gives: a failure kind or format.duration = d.
PrimaryOutcomes ==
    {[kind |-> k, d |-> 0] : k \in ProbeFailures}
        \cup {[kind |-> "duration", d |-> d] : d \in 0..MaxDuration}

\* What "ffmpeg -i" gives: it raises, no Duration line, or a Duration of d.
SecondaryOutcomes ==
    {[kind |-> k, d |-> 0] : k \in {"raise", "nomatch"}}
        \cup {[kind |-> "duration", d |-> d] : d \in 0..MaxDuration}

\* The same without the outer "except Exception": what the try block raises
\* leaves the method.
get_audio_duration_unguarded(ffmpeg, p, s) ==
    IF ~ffmpeg
    THEN [none |-> TRUE, value |-> 0, secondary |-> FALSE, raised |-> FALSE]
    ELSE IF p.kind = "duration"
    THEN [none |-> FALSE, value |-> p.d, secondary |-> FALSE, raised |-> FALSE]
    ELSE IF p.kind \in {"raise", "nonnumeric"}
    THEN [none |-> FALSE, value |-> 0, secondary |-> FALSE, raised |-> TRUE]
    ELSE IF s.kind = "duration"
    THEN [none |-> FALSE, value |-> s.d, secondary |-> TRUE, raised |-> FALSE]
    ELSE IF s.kind = "raise"
    THEN [none |-> FALSE, value |-> 0, secondary |-> TRUE, raised |-> TRUE]
    ELSE [none |-> FALSE, value |-> DefaultDuration, secondary |-> TRUE,
          raised |-> FALSE]

\* get_audio_duration: [none, value, secondary, raised]; "none" is the None
\* returned without ffmpeg, "secondary" tells whether the "ffmpeg -i" strategy
\* was run, "raised" whether an exception left the method.  Only
\* json.JSONDecodeError is caught next to the parse: a failing subprocess.run
\* or decode and the ValueError of a non-numeric duration field go to the
\* outer handler, which returns the default at once.
get_audio_duration(ffmpeg, p, s) ==
    IF ~ffmpeg
    THEN [none |-> TRUE, value |-> 0, secondary |-> FALSE, raised |-> FALSE]
    ELSE IF p.kind = "duration"
    THEN [none |-> FALSE, value |-> p.d, secondary |-> FALSE, raised |-> FALSE]
    ELSE IF p.kind \in {"raise", "nonnumeric"}
    THEN [none |-> FALSE, value |-> DefaultDuration, secondary |-> FALSE,
          raised |-> FALSE]
    ELSE IF s.kind = "duration"
    THEN [none |-> FALSE, value |-> s.d, secondary |-> TRUE, raised |-> FALSE]
    ELSE [none |-> FALSE, value |-> DefaultDuration, secondary |-> TRUE,
          raised |-> FALSE]

NoProbeOutcome == [kind |-> "none", d |-> 0]

NoProbeResult ==
    [none |-> FALSE, value |-> 0, secondary |-> FALSE, raised |-> FALSE]

\* get_audio_duration is not running.
ProbeIdle ==
    /\ gad_pc = "idle"
    /\ gad_ffmpeg = FALSE
    /\ gad_primary = NoProbeOutcome
    /\ gad_secondary = NoProbeOutcome
    /\ gad_ret = NoProbeResult

\* A call of get_audio_duration on an object with or without ffmpeg, for a
\* file on which the two tools behave as gad_primary and gad_secondary say.
ProbeInit ==
    /\ gad_pc = "call"
    /\ gad_ffmpeg \in BOOLEAN
    /\ gad_primary \in PrimaryOutcomes
    /\ gad_secondary \in SecondaryOutcomes
    /\ gad_ret = NoProbeResult

ProbeCall ==
    /\ gad_pc = "call"
    /\ gad_ret' = get_audio_duration(gad_ffmpeg, gad_primary, gad_secondary)
    /\ gad_pc' = "returned"
    /\ UNCHANGED <<gad_ffmpeg, gad_primary, gad_secondary>>
    /\ UNCHANGED notProbe

\* ------------------------------------------- output paths of an invocation
\* wsgi.py: "threads = 2"
threads == 2

Threads == 1..threads

\* datetime.now().strftime("%Y%m%d_%H%M%S"); f"news_video_{timestamp}.mp4"
output_filename(timestamp) == <<"news_video", timestamp>>

\* The files an invocation places in the output directory, by the name the
\* single-invocation model gives them.  Every path is derived from
\* output_path, except simple_subs.vtt, whose name is fixed
\* (create_hardcoded_subtitles: os.path.join(temp_dir, "simple_subs.vtt")).
PathOf(timestamp, name) ==
    IF name = "vtt" THEN <<"simple_subs.vtt">>
    ELSE output_filename(timestamp) \o <<name>>

ConcIdle ==
    /\ clock = 1
    /\ run_pc = [t \in Threads |-> "idle"]
    /\ run_ts = [t \in Threads |-> 0]
    /\ run_files = [t \in Threads |-> {}]

\* ====================================== create_video_with_narration, setup
OutNames == {"video", "script", "subtitled", "sequential", "caption",
             "simple_subs", "vtt", "seq_temp", "seq_concat"}

EmptyDir == [f \in OutNames |-> "absent"]

NoSubtitle == [kind |-> "none", exists |-> FALSE, path |-> FALSE]

NoDuration == [num |-> 0, den |-> 1]

RunIdle ==
    /\ pc = "idle"
    /\ ffmpeg_available = FALSE
    /\ WHISPER_AVAILABLE = FALSE
    /\ video_sources = 0
    /\ temp_dir = "none"
    /\ duration = 0
    /\ i = 0
    /\ downloaded_video_paths = <<>>
    /\ clip_duration = NoDuration
    /\ processed_videos = <<>>
    /\ concat_list = <<>>
    /\ outdir = EmptyDir
    /\ subtitle = NoSubtitle
    /\ attempted = <<>>
    /\ result = "unset"
    /\ exit_path = "none"
    /\ dl_ok = {}
    /\ proc_ok = {}
    /\ muxed = FALSE
    /\ concat_output = "absent"

\* ============================================ generate_simple_subtitles
\* "if len(current_chunk) + len(word) + 1 <= 40"
ChunkLimit == 40

\* Words short enough to share a chunk, and words longer than a chunk.
WordLengths == {10, 41}

EmptyChunk == [len |-> 0, words |-> <<>>]

\* The chunking loop over words[k..], with the chunks closed so far and the
\* current chunk.  A word joins the current chunk if it fits, otherwise the
\* current chunk is closed (also when it is still empty) and the word starts
\* the next one; the last chunk is closed if it is not empty.
RECURSIVE ChunksFrom(_, _, _, _)
ChunksFrom(k, words, chunks, cur) ==
    IF k > Len(words)
    THEN IF cur.len > 0 THEN Append(chunks, cur) ELSE chunks
    ELSE IF cur.len + words[k] + 1 <= ChunkLimit
         THEN ChunksFrom(k + 1, words, chunks,
                  IF cur.len > 0
                  THEN [len |-> cur.len + 1 + words[k],
                        words |-> Append(cur.words, k)]
                  ELSE [len |-> words[k], words |-> <<k>>])
         ELSE ChunksFrom(k + 1, words, Append(chunks, cur),
                  [len |-> words[k], words |-> <<k>>])

Chunks(words) == ChunksFrom(1, words, <<>>, EmptyChunk)

RECURSIVE Pow2(_)
Pow2(n) == IF n = 0 THEN 1 ELSE 2 * Pow2(n - 1)

\* n / d rounded to the nearest integer, ties to the even one.
RoundHalfEven(n, d) ==
    LET q == n \div d
        r == n % d
    IN  IF 2 * r > d \/ (2 * r = d /\ q % 2 = 1) THEN q + 1 ELSE q

RECURSIVE Excess(_, _)
\* The number of low bits n has beyond the mantissa: the least s >= k with
\* n < 2^(MantissaBits + s).
Excess(n, k) == IF n < Pow2(MantissaBits + k) THEN k ELSE Excess(n, k + 1)

\* A float is [m, sh], the number m / 2^sh.  The float nearest to n / 2^sh.
Fl(n, sh) ==
    LET s == Excess(n, 0)
    IN  IF s = 0 THEN [m |-> n, sh |-> sh]
        ELSE [m |-> RoundHalfEven(n, Pow2(s)), sh |-> sh - s]

RECURSIVE QuotientScale(_, _, _)
\* The scale of the float nearest to a / k: the greatest sh >= s for which
\* a * 2^sh / k stays below 2^MantissaBits.
QuotientScale(a, k, s) ==
    IF a * Pow2(s + 1) < Pow2(MantissaBits) * k
    THEN QuotientScale(a, k, s + 1) ELSE s

\* a / k, for integers a > 0 and k > 0 held in floats.
FloatDiv(a, k) ==
    LET s == QuotientScale(a, k, 0)
    IN  [m |-> RoundHalfEven(a * Pow2(s), k), sh |-> s]

\* c * x, for an integer c and a float x.
FloatMul(c, x) == Fl(c * x.m, x.sh)

\* int(x)
Whole(x) == x.m \div Pow2(x.sh)

\* x - int(x): exact
Frac(x) == [m |-> x.m % Pow2(x.sh), sh |-> x.sh]

\* "time_per_chunk = duration / chunk_count if chunk_count > 0 else duration"
time_per_chunk(d, chunk_count) ==
    IF chunk_count > 0 THEN FloatDiv(d, chunk_count) ELSE [m |-> d, sh |-> 0]

\* hours = int(seconds // 3600), minutes = int((seconds % 3600) // 60),
\* secs = int(seconds % 60), msecs = int((seconds - int(seconds)) * 1000):
\* every field is cut off, nothing is rounded.
_format_srt_time(seconds) ==
    LET whole == Whole(seconds)
    IN  [hours   |-> whole \div 3600,
         minutes |-> (whole % 3600) \div 60,
         secs    |-> whole % 60,
         msecs   |-> Whole(FloatMul(1000, Frac(seconds)))]

RECURSIVE SeqsUpTo(_, _)
\* The sequences over S of length at most n.
SeqsUpTo(S, n) ==
    IF n = 0 THEN {<<>>}
    ELSE LET shorter == SeqsUpTo(S, n - 1)
         IN  shorter \cup {Append(q, x) : q \in shorter, x \in S}

\* generate_simple_subtitles is not running.
SrtIdle ==
    /\ srt_pc = "idle"
    /\ srt_text = <<>>
    /\ srt_duration = 0
    /\ srt_chunks = <<>>
    /\ srt_i = 0
    /\ srt_entries = <<>>
    /\ srt_ret = "unset"

\* A call with some text and a duration the probe can give.
SrtInit ==
    /\ srt_pc = "call"
    /\ srt_text \in SeqsUpTo(WordLengths, MaxWords)
    /\ srt_duration \in (1..MaxSeconds) \cup {DefaultDuration}
    /\ srt_chunks = <<>>
    /\ srt_i = 0
    /\ srt_entries = <<>>
    /\ srt_ret = "unset"

\* The text is split into chunks and the file is opened; a failing open()
\* goes to the handler, which returns None.
SrtSplit ==
    /\ srt_pc = "call"
    /\ srt_chunks' = Chunks(srt_text)
    /\ \E opened \in BOOLEAN :
         IF opened THEN srt_pc' = "write" /\ UNCHANGED srt_ret
         ELSE srt_pc' = "returned" /\ srt_ret' = None
    /\ UNCHANGED <<srt_text, srt_duration, srt_i, srt_entries>>
    /\ UNCHANGED notSrt

\* One turn of "for i, chunk in enumerate(chunks)": entry i + 1 is written.
SrtWrite ==
    /\ srt_pc = "write"
    /\ srt_i < Len(srt_chunks)
    /\ LET tpc == time_per_chunk(srt_duration, Len(srt_chunks))
           start_time == FloatMul(srt_i, tpc)
           end_time == FloatMul(srt_i + 1, tpc)
       IN  srt_entries' = Append(srt_entries,
               [n |-> srt_i + 1,
                start |-> _format_srt_time(start_time),
                end |-> _format_srt_time(end_time),
                chunk |-> srt_chunks[srt_i + 1]])
    /\ srt_i' = srt_i + 1
    /\ UNCHANGED <<srt_pc, srt_text, srt_duration, srt_chunks, srt_ret>>
    /\ UNCHANGED notSrt

\* After the loop the file exists and its path is returned.
SrtReturn ==
    /\ srt_pc = "write"
    /\ srt_i = Len(srt_chunks)
    /\ srt_pc' = "returned"
    /\ srt_ret' = "path"
    /\ UNCHANGED <<srt_text, srt_duration, srt_chunks, srt_i, srt_entries>>
    /\ UNCHANGED notSrt

\* ======================================================= download_video
\* The url argument: a URL string, a record with a 'url' key, a record
\* without one, or nothing.
UrlArguments == {"str", "dict_url", "dict_other", "none"}

\* requests.get(url, stream=True): a response with a success status, a
\* response with an error status, or no response (RequestException).
Responses == {"ok", "http_error", "network_error"}

Bodies == {"data", "empty"}

\* open(output_path, 'wb') and the writes: all fine, open fails, or the
\* stream breaks after the file was created.
WriteOutcomes == {"ok", "open_fails", "breaks"}

NoDownload == [ret |-> FALSE, raised |-> FALSE, file |-> "absent"]

\* The older revision: the url is used as given and the call returns True
\* once the body is written, without looking at the file.
download_video_unverified(url, response, body, write) ==
    IF url # "str" \/ response # "ok" \/ write = "open_fails"
    THEN NoDownload
    ELSE IF write = "breaks"
    THEN [ret |-> FALSE, raised |-> FALSE, file |-> "partial"]
    ELSE [ret |-> TRUE, raised |-> FALSE, file |-> body]

\* download_video(url, output_path).  A record's 'url' entry replaces the
\* record; requests.get raises on anything that is not a URL and
\* raise_for_status on an error status; both handlers return False.  After
\* the body is written the call returns True only for a file that exists and
\* is not empty.
download_video(url, response, body, write) ==
    LET is_url == url \in {"str", "dict_url"}
    IN  IF ~is_url \/ response # "ok" \/ write = "open_fails"
        THEN NoDownload
        ELSE IF write = "breaks"
        THEN [ret |-> FALSE, raised |-> FALSE, file |-> "partial"]
        ELSE [ret |-> body = "data", raised |-> FALSE, file |-> body]

\* download_video is not running.
DvIdle ==
    /\ dv_pc = "idle"
    /\ dv_url = "none"
    /\ dv_response = "ok"
    /\ dv_body = "empty"
    /\ dv_write = "ok"
    /\ dv_ret = NoDownload

\* A call on a fresh output path, for every kind of argument and every way
\* the request and the write can go.
DvInit ==
    /\ dv_pc = "call"
    /\ dv_url \in UrlArguments
    /\ dv_response \in Responses
    /\ dv_body \in Bodies
    /\ dv_write \in WriteOutcomes
    /\ dv_ret = NoDownload

DvCall ==
    /\ dv_pc = "call"
    /\ dv_ret' = download_video(dv_url, dv_response, dv_body, dv_write)
    /\ dv_pc' = "returned"
    /\ UNCHANGED <<dv_url, dv_response, dv_body, dv_write>>
    /\ UNCHANGED notDv

\* ================================================= VideoCreator.__init__
\* possible_paths has eight entries.
NumPaths == 8

\* What input() gives at the prompt: a path that exists, one that does not,
\* an empty line, or end of input.
Answers == {"existing", "missing", "empty", "eof"}

\* No VideoCreator is being constructed.
CtorIdle ==
    /\ ctor_pc = "idle"
    /\ ctor_working = {}
    /\ ctor_k = 0
    /\ ctor_path = "unset"
    /\ ctor_available = FALSE
    /\ ctor_error = "none"

\* A construction on a machine where any of the candidate paths may work.
CtorInit ==
    /\ ctor_pc = "search"
    /\ ctor_working \in SUBSET (1..NumPaths)
    /\ ctor_k = 1
    /\ ctor_path = "unset"
    /\ ctor_available = FALSE
    /\ ctor_error = "none"

\* One turn of "for path in possible_paths": the first entry whose run exits
\* 0 is returned; a failing or raising run goes on to the next entry.
CtorCheck ==
    /\ ctor_pc = "search"
    /\ ctor_k <= NumPaths
    /\ IF ctor_k \in ctor_working
       THEN ctor_path' = "entry" /\ ctor_pc' = "finish" /\ UNCHANGED ctor_k
       ELSE ctor_k' = ctor_k + 1 /\ UNCHANGED <<ctor_path, ctor_pc>>
    /\ UNCHANGED <<ctor_working, ctor_available, ctor_error>>
    /\ UNCHANGED notCtor

\* No entry worked: user_path = input("Please enter the full path ...").
CtorPrompt ==
    /\ ctor_pc = "search"
    /\ ctor_k > NumPaths
    /\ ctor_pc' = "prompt"
    /\ UNCHANGED <<ctor_working, ctor_k, ctor_path, ctor_available, ctor_error>>
    /\ UNCHANGED notCtor

\* A line arrives on standard input (the call waits until one does):
\* "if user_path and os.path.exists(user_path): return user_path", else
\* "return None"; at end of input input() raises EOFError, which nothing
\* catches.
CtorAnswer ==
    /\ ctor_pc = "prompt"
    /\ \E a \in Answers :
         CASE a = "existing" ->
                ctor_path' = "user" /\ ctor_pc' = "finish" /\ UNCHANGED ctor_error
           [] a = "eof" ->
                ctor_error' = "EOFError" /\ ctor_pc' = "raised"
                /\ UNCHANGED ctor_path
           [] OTHER ->
                ctor_path' = None /\ ctor_pc' = "finish" /\ UNCHANGED ctor_error
    /\ UNCHANGED <<ctor_working, ctor_k, ctor_available>>
    /\ UNCHANGED notCtor

\* "self.ffmpeg_available = self.ffmpeg_path is not None"; without ffmpeg a
\* warning is printed and the construction goes on to its end.
CtorFinish ==
    /\ ctor_pc = "finish"
    /\ ctor_available' = (ctor_path # None)
    /\ ctor_pc' = "constructed"
    /\ UNCHANGED <<ctor_working, ctor_k, ctor_path, ctor_error>>
    /\ UNCHANGED notCtor

\* ============================ POST /api/generate_video_from_custom_text
\* SimpleDB._create_tables: the columns of the videos table.
VideosColumns == {"id", "script_id", "video_path", "created_at"}

\* The columns named by the endpoint's INSERT INTO videos.
CustomTextInsertColumns ==
    {"id", "title", "script_text", "video_path", "keywords", "created_at"}

\* video_id = int(current_time.strftime("%Y%m%d%H%M%S")): the id of this
\* second, and the id of an earlier second.
ThisSecond == "now"
EarlierSecond == "before"

\* INSERT INTO table (columns) with an explicit primary key: it raises
\* OperationalError if the table lacks a named column and IntegrityError if
\* the key is taken.
InsertRaises(columns, table_columns, id, rows) ==
    ~(columns \subseteq table_columns) \/ id \in rows

\* How making the file goes.  Without a VideoCreator the placeholder is
\* written or open() raises; with one, create_video_from_text returns
\* (path, None), (path, None, vertical_path), or (None, error).
MakeOutcomes(creator) ==
    IF creator THEN {"pair", "triple", "error"} ELSE {"written", "open_fails"}

NoResponse == [status |-> 0, success |-> FALSE, video_url |-> FALSE]

ErrorResponse == [status |-> 500, success |-> FALSE, video_url |-> FALSE]

OkResponse == [status |-> 200, success |-> TRUE, video_url |-> TRUE]

\* The endpoint is not serving a request.
CtIdle ==
    /\ ct_pc = "idle"
    /\ ct_creator = FALSE
    /\ ct_outcome = "none"
    /\ ct_keywords = "none"
    /\ ct_file = FALSE
    /\ ct_videos = {}
    /\ ct_response = NoResponse

\* A request with a title and a text, with or without a VideoCreator, on a
\* database that may hold videos of this and of earlier seconds.
CtInit ==
    /\ ct_pc = "call"
    /\ ct_creator \in BOOLEAN
    /\ ct_outcome \in MakeOutcomes(ct_creator)
    /\ ct_keywords \in {"some", "empty", "raises"}
    /\ ct_file = FALSE
    /\ ct_videos \in SUBSET {ThisSecond, EarlierSecond}
    /\ ct_response = NoResponse

\* The placeholder is written, or create_video_from_text has run.  A failure
\* is answered at once: the error tuple by the 500 response, a raising open()
\* by the handler.
CtMake ==
    /\ ct_pc = "call"
    /\ IF ct_outcome \in {"written", "pair", "triple"}
       THEN /\ ct_file' = TRUE
            /\ ct_pc' = "made"
            /\ UNCHANGED ct_response
       ELSE /\ ct_response' = ErrorResponse
            /\ ct_pc' = "responded"
            /\ UNCHANGED ct_file
    /\ UNCHANGED <<ct_creator, ct_outcome, ct_keywords, ct_videos>>
    /\ UNCHANGED notCt

\* The keywords (only with a VideoCreator), the INSERT INTO videos, the
\* commit and the response; every exception ends in the handler's 500.
CtRecord ==
    /\ ct_pc = "made"
    /\ LET raises ==
              \/ ct_creator /\ ct_keywords = "raises"
              \/ InsertRaises(CustomTextInsertColumns, VideosColumns,
                              ThisSecond, ct_videos)
       IN  IF raises
           THEN ct_response' = ErrorResponse /\ UNCHANGED ct_videos
           ELSE /\ ct_videos' = ct_videos \cup {ThisSecond}
                /\ ct_response' = OkResponse
    /\ ct_pc' = "responded"
    /\ UNCHANGED <<ct_creator, ct_outcome, ct_keywords, ct_file>>
    /\ UNCHANGED notCt

\* ================================================ GET /api/news_articles
MaxArticles == 3

Articles == 1..MaxArticles

\* The ids the hash of a url can give.
ArticleIds == 1..MaxArticles

\* The endpoint is not serving a request.
NaIdle ==
    /\ na_pc = "idle"
    /\ na_batch = <<>>
    /\ na_bad = {}
    /\ na_hash = [a \in Articles |-> a]
    /\ na_k = 0
    /\ na_ids = <<>>
    /\ na_table = [d \in ArticleIds |-> 0]
    /\ na_listing = <<>>

\* The news API returned some articles; the INSERT of any of them may raise
\* (a null title breaks NOT NULL), and hash() may give any ids.
NaInit ==
    /\ na_pc = "store"
    /\ \E n \in Articles : na_batch = [j \in 1..n |-> j]
    /\ na_bad \in SUBSET Articles
    /\ na_hash \in [Articles -> ArticleIds]
    /\ na_k = 1
    /\ na_ids = <<>>
    /\ na_table = [d \in ArticleIds |-> 0]
    /\ na_listing = <<>>

\* add_news_articles, one turn of its loop: INSERT OR REPLACE under the
\* article's hash id; the id is appended to added_ids only if the insert
\* did not raise.
NaStore ==
    /\ na_pc = "store"
    /\ na_k <= Len(na_batch)
    /\ LET a == na_batch[na_k]
           article_id == na_hash[a]
       IN  IF a \in na_bad
           THEN UNCHANGED <<na_table, na_ids>>
           ELSE /\ na_table' = [na_table EXCEPT ![article_id] = a]
                /\ na_ids' = Append(na_ids, article_id)
    /\ na_k' = na_k + 1
    /\ UNCHANGED <<na_pc, na_batch, na_bad, na_hash, na_listing>>
    /\ UNCHANGED notNa

\* The commit and "return added_ids".
NaStored ==
    /\ na_pc = "store"
    /\ na_k > Len(na_batch)
    /\ na_pc' = "list"
    /\ na_k' = 1
    /\ UNCHANGED <<na_batch, na_bad, na_hash, na_ids, na_table, na_listing>>
    /\ UNCHANGED notNa

\* One turn of the formatting loop:
\* "id_to_use = article_ids[i] if i < len(article_ids) else article_id".
NaList ==
    /\ na_pc = "list"
    /\ na_k <= Len(na_batch)
    /\ LET a == na_batch[na_k]
           article_id == na_hash[a]
           id_to_use == IF na_k <= Len(na_ids) THEN na_ids[na_k] ELSE article_id
       IN  na_listing' = Append(na_listing, [id |-> id_to_use, article |-> a])
    /\ na_k' = na_k + 1
    /\ UNCHANGED <<na_pc, na_batch, na_bad, na_hash, na_ids, na_table>>
    /\ UNCHANGED notNa

NaRespond ==
    /\ na_pc = "list"
    /\ na_k > Len(na_batch)
    /\ na_pc' = "responded"
    /\ UNCHANGED <<na_batch, na_bad, na_hash, na_k, na_ids, na_table, na_listing>>
    /\ UNCHANGED notNa

\* ========================================================= create_video
\* "def create_video_with_narration(self, script_text, video_sources)": the
\* positional arguments the method takes besides self.
NarrationParameters == 2

\* "self.create_video_with_narration(script, videos, output_filename)": the
\* positional arguments create_video passes.
PassedArguments == 3

\* A call binds when it passes exactly the positional arguments the method
\* takes (none of them has a default here); otherwise Python raises TypeError
\* before the body runs.
Binds(passed, parameters) == passed = parameters

\* What create_video_with_narration can give: None, the narrated video or
\* one of the subtitled outputs.
NarrationResults ==
    {None, "video", "subtitled", "sequential", "caption", "simple_subs"}

NoCall == [value |-> "unset", raised |-> "none"]

\* create_video(script, videos, output_filename): the delegation, with no
\* handler around it.
create_video(inner) ==
    IF Binds(PassedArguments, NarrationParameters)
    THEN [value |-> inner, raised |-> "none"]
    ELSE [value |-> "unset", raised |-> "TypeError"]

\* create_video is not running.
CvIdle ==
    /\ cv_pc = "idle"
    /\ cv_script = "empty"
    /\ cv_videos = 0
    /\ cv_filename = FALSE
    /\ cv_inner = None
    /\ cv_ret = NoCall

\* A call for any script and clip list, with or without a file name, where
\* create_video_with_narration would give cv_inner for these inputs.
CvInit ==
    /\ cv_pc = "call"
    /\ cv_script \in {"empty", "text"}
    /\ cv_videos \in 0..MaxClips
    /\ cv_filename \in BOOLEAN
    /\ cv_inner \in NarrationResults
    /\ cv_videos = 0 => cv_inner = None
    /\ cv_ret = NoCall

CvCall ==
    /\ cv_pc = "call"
    /\ cv_ret' = create_video(cv_inner)
    /\ cv_pc' = "returned"
    /\ UNCHANGED <<cv_script, cv_videos, cv_filename, cv_inner>>
    /\ UNCHANGED notCv

\* ======================================================= generate_script
\* The most sentences a completion has, the most words one sentence has and
\* the largest max_words a call is given.
MaxSentences == 3

MaxSentenceWords == 3

MaxWordLimit == 4

\* A sentence as re.split(r'(?<=[.!?])\s+', script) gives it: the number of
\* its words (sentence.split()) and whether it ends with . ! or ?
Sentences == [words : 1..MaxSentenceWords, closed : BOOLEAN]

\* The stripped completions: the split cuts only after . ! or ? so every
\* sentence but the last ends with one of them; <<>> is the empty completion.
Scripts ==
    {s \in UNION {[1..n -> Sentences] : n \in 0..MaxSentences} :
        \A k \in 1..(Len(s) - 1) : s[k].closed}

\* len(script.split())
RECURSIVE WordCount(_)
WordCount(script) ==
    IF script = <<>> THEN 0
    ELSE script[1].words + WordCount(Tail(script))

\* "for sentence in sentences": a sentence is added while it still fits
\* max_words; the first one that does not fit ends the loop.
RECURSIVE KeepSentences(_, _, _)
KeepSentences(sentences, truncated_script, max_words) ==
    IF sentences = <<>> THEN truncated_script
    ELSE IF WordCount(truncated_script) + sentences[1].words <= max_words
         THEN KeepSentences(Tail(sentences),
                            Append(truncated_script, sentences[1]), max_words)
         ELSE truncated_script

\* "if script.endswith(('.', '!', '?')): pass", else the text is cut after
\* its last . ! or ? when there is one and left alone when there is none.
ToLastPunctuation(script) ==
    IF script = <<>> \/ script[Len(script)].closed THEN script
    ELSE IF Len(script) > 1 THEN SubSeq(script, 1, Len(script) - 1)
         ELSE script

\* "if word_count > max_words": the truncation at a sentence boundary.
Truncate(script, max_words) ==
    IF WordCount(script) > max_words
    THEN ToLastPunctuation(KeepSentences(script, <<>>, max_words))
    ELSE script

NoScript == [kind |-> "unset", script |-> <<>>]

\* generate_script(article_title, article_text, max_words): the completion,
\* truncated; None when the request raises.
generate_script(api, script, max_words) ==
    IF api = "error" THEN [kind |-> "None", script |-> <<>>]
    ELSE [kind |-> "script", script |-> Truncate(script, max_words)]

\* generate_script is not running.
GsIdle ==
    /\ gs_pc = "idle"
    /\ gs_api = "ok"
    /\ gs_script = <<>>
    /\ gs_max_words = 1
    /\ gs_ret = NoScript

\* A call with any word limit, answered by any completion or by an error.
GsInit ==
    /\ gs_pc = "call"
    /\ gs_api \in {"ok", "error"}
    /\ gs_script \in Scripts
    /\ gs_max_words \in 1..MaxWordLimit
    /\ gs_ret = NoScript

GsCall ==
    /\ gs_pc = "call"
    /\ gs_ret' = generate_script(gs_api, gs_script, gs_max_words)
    /\ gs_pc' = "returned"
    /\ UNCHANGED <<gs_api, gs_script, gs_max_words>>
    /\ UNCHANGED notGs

\* ================================================ generate_ass_subtitles
\* "if len(text) > 40" and "if len(current_line) + len(word) + 1 > 40"
LineLimit == 40

\* len(text) for words separated by single spaces.
RECURSIVE TextLength(_)
TextLength(words) ==
    IF words = <<>> THEN 0
    ELSE IF Len(words) = 1 THEN words[1]
    ELSE words[1] + 1 + TextLength(Tail(words))

\* The wrapping loop over words[k..], with the lines closed so far and the
\* current line.  A word that does not fit closes the current line (also
\* when it is still empty) and starts the next one; the last line is closed
\* if it is not empty.
RECURSIVE LinesFrom(_, _, _, _)
LinesFrom(k, words, lines, current_line) ==
    IF k > Len(words)
    THEN IF current_line.len > 0 THEN Append(lines, current_line) ELSE lines
    ELSE IF current_line.len + words[k] + 1 > LineLimit
         THEN LinesFrom(k + 1, words, Append(lines, current_line),
                  [len |-> words[k], words |-> <<k>>])
         ELSE LinesFrom(k + 1, words, lines,
                  IF current_line.len > 0
                  THEN [len |-> current_line.len + 1 + words[k],
                        words |-> Append(current_line.words, k)]
                  ELSE [len |-> words[k], words |-> <<k>>])

\* The text of one Dialogue line: wrapped when it is longer than 40
\* characters, as it is otherwise.
DialogueLines(words) ==
    IF TextLength(words) > LineLimit
    THEN LinesFrom(1, words, <<>>, EmptyChunk)
    ELSE <<[len |-> TextLength(words),
            words |-> [k \in 1..Len(words) |-> k]]>>

\* No dialogue line is being written.
AsIdle ==
    /\ as_pc = "idle"
    /\ as_text = <<>>
    /\ as_lines = <<>>

\* A segment with any text.
AsInit ==
    /\ as_pc = "call"
    /\ as_text \in SeqsUpTo(WordLengths, MaxWords)
    /\ as_lines = <<>>

\* One turn of "for i, segment in enumerate(segments)".
AsDialogue ==
    /\ as_pc = "call"
    /\ as_lines' = DialogueLines(as_text)
    /\ as_pc' = "written"
    /\ UNCHANGED as_text
    /\ UNCHANGED notAs

\* ================================================ create_video_from_text
NoTuple == [video |-> "unset", error |-> "unset", len |-> 0]

\* "return None, <message>"
Failure(message) == [video |-> None, error |-> message, len |-> 2]

\* The outcomes every backend can have, one per backend.
BackendOutcomes ==
    {outs \in [Backends -> UNION {TtsOutcomes(b) : b \in Backends}] :
        \A b \in Backends : outs[b] \in TtsOutcomes(b)}

\* create_video_from_text is not running.
VtIdle ==
    /\ vt_pc = "idle"
    /\ vt_avail = [b \in Backends |-> FALSE]
    /\ vt_ffmpeg = FALSE
    /\ vt_videos = 0
    /\ vt_speech = <<>>
    /\ vt_final = None
    /\ vt_ret = NoTuple

\* A run on a machine with any backends, with or without FFmpeg.
VtInit ==
    /\ vt_pc = "script"
    /\ vt_avail \in [Backends -> BOOLEAN]
    /\ vt_ffmpeg \in BOOLEAN
    /\ vt_videos = 0
    /\ vt_speech = <<>>
    /\ vt_final = None
    /\ vt_ret = NoTuple

\* Steps 1 to 3: the script, the keywords, the output directory and
\* script.txt.  No script ends the run; an exception of any of these steps
\* goes to the handler of the method.
VtScript ==
    /\ vt_pc = "script"
    /\ \E o \in {"script", "none", "raise"} :
         CASE o = "script" -> vt_pc' = "search" /\ UNCHANGED vt_ret
           [] o = "none" ->
                /\ vt_pc' = "returned"
                /\ vt_ret' = Failure("Failed to generate script")
           [] OTHER ->
                /\ vt_pc' = "returned"
                /\ vt_ret' = Failure("str(e)")
    /\ UNCHANGED <<vt_avail, vt_ffmpeg, vt_videos, vt_speech, vt_final>>
    /\ UNCHANGED notVt

\* Step 4: one clip per keyword at most; a failing search raises.
VtSearch ==
    /\ vt_pc = "search"
    /\ \/ /\ \E n \in 0..MaxClips : vt_videos' = n
          /\ vt_pc' = "speech"
          /\ UNCHANGED vt_ret
       \/ /\ vt_pc' = "returned"
          /\ vt_ret' = Failure("str(e)")
          /\ UNCHANGED vt_videos
    /\ UNCHANGED <<vt_avail, vt_ffmpeg, vt_speech, vt_final>>
    /\ UNCHANGED notVt

\* Step 5: "self.generate_speech(script, audio_file)", whose result is not
\* looked at; then "if not selected_videos_raw".
VtSpeech ==
    /\ vt_pc = "speech"
    /\ \E outs \in BackendOutcomes :
         vt_speech' = Append(vt_speech, generate_speech(vt_avail, outs).ok)
    /\ IF vt_videos = 0
       THEN /\ vt_pc' = "returned"
            /\ vt_ret' = Failure("No videos found for keywords")
       ELSE vt_pc' = "create" /\ UNCHANGED vt_ret
    /\ UNCHANGED <<vt_avail, vt_ffmpeg, vt_videos, vt_final>>
    /\ UNCHANGED notVt

\* Step 6: create_video_with_narration is entered; without FFmpeg it
\* returns None before the narration.
VtCreate ==
    /\ vt_pc = "create"
    /\ IF vt_ffmpeg
       THEN vt_pc' = "narration" /\ UNCHANGED vt_ret
       ELSE /\ vt_pc' = "returned"
            /\ vt_ret' = Failure("Failed to create video")
    /\ UNCHANGED <<vt_avail, vt_ffmpeg, vt_videos, vt_speech, vt_final>>
    /\ UNCHANGED notVt

\* "if not self.generate_speech(script_text, audio_path): return None" in
\* create_video_with_narration.
VtNarration ==
    /\ vt_pc = "narration"
    /\ \E outs \in BackendOutcomes :
         LET ok == generate_speech(vt_avail, outs).ok
         IN  /\ vt_speech' = Append(vt_speech, ok)
             /\ IF ok THEN vt_pc' = "pipeline" /\ UNCHANGED vt_ret
                ELSE /\ vt_pc' = "returned"
                     /\ vt_ret' = Failure("Failed to create video")
    /\ UNCHANGED <<vt_avail, vt_ffmpeg, vt_videos, vt_final>>
    /\ UNCHANGED notVt

\* The rest of create_video_with_narration gives None or a file it has
\* written; then "if final_video and os.path.exists(final_video)".
VtPipeline ==
    /\ vt_pc = "pipeline"
    /\ \E r \in NarrationResults :
         /\ vt_final' = r
         /\ IF r # None THEN vt_pc' = "vertical" /\ UNCHANGED vt_ret
            ELSE /\ vt_pc' = "returned"
                 /\ vt_ret' = Failure("Failed to create video")
    /\ UNCHANGED <<vt_avail, vt_ffmpeg, vt_videos, vt_speech>>
    /\ UNCHANGED notVt

\* Step 7: the vertical version; the run returns the video with or without
\* it.
VtVertical ==
    /\ vt_pc = "vertical"
    /\ \E o \in {"vertical", "nofile", "raise"} :
         vt_ret' = [video |-> vt_final, error |-> None,
                    len |-> IF o = "vertical" THEN 3 ELSE 2]
    /\ vt_pc' = "returned"
    /\ UNCHANGED <<vt_avail, vt_ffmpeg, vt_videos, vt_speech, vt_final>>
    /\ UNCHANGED notVt

\* ============================================ POST /api/generate_script
\* Both worker threads use the module-level "db = SimpleDB(...)": one
\* connection opened with check_same_thread=False and one cursor.  A thread
\* can be switched out between any two statements; each cursor call is one
\* step.

\* The ids with a row in the articles table; the other ids have none.
StoredArticles == {a \in ArticleIds : a < MaxArticles}

NoScriptResponse == [status |-> 0, script_id |-> 0]

\* No request is being served.
DbIdle ==
    /\ db_pc = [t \in Threads |-> "idle"]
    /\ db_req = [t \in Threads |-> 1]
    /\ db_rows = <<>>
    /\ db_lastrowid = 0
    /\ db_scripts = <<>>
    /\ db_article = [t \in Threads |-> 0]
    /\ db_resp = [t \in Threads |-> NoScriptResponse]

\* Each thread has a request with a valid integer article_id.
DbInit ==
    /\ db_pc = [t \in Threads |-> "select"]
    /\ db_req \in [Threads -> ArticleIds]
    /\ db_rows = <<>>
    /\ db_lastrowid = 0
    /\ db_scripts = <<>>
    /\ db_article = [t \in Threads |-> 0]
    /\ db_resp = [t \in Threads |-> NoScriptResponse]

\* db.cursor.execute("SELECT id, title, description FROM articles WHERE
\* id = ?"): the cursor now holds the rows of this query.
DbSelect(t) ==
    /\ db_pc[t] = "select"
    /\ db_rows' = IF db_req[t] \in StoredArticles THEN <<db_req[t]>> ELSE <<>>
    /\ db_pc' = [db_pc EXCEPT ![t] = "fetch"]
    /\ UNCHANGED <<db_req, db_lastrowid, db_scripts, db_article, db_resp>>
    /\ UNCHANGED notDb

\* article = db.cursor.fetchone(): the next row the cursor holds, or None.
DbFetch(t) ==
    /\ db_pc[t] = "fetch"
    /\ IF db_rows = <<>>
       THEN /\ db_pc' = [db_pc EXCEPT ![t] = "debug"]
            /\ UNCHANGED <<db_rows, db_article>>
       ELSE /\ db_article' = [db_article EXCEPT ![t] = Head(db_rows)]
            /\ db_rows' = Tail(db_rows)
            /\ db_pc' = [db_pc EXCEPT ![t] = "generate"]
    /\ UNCHANGED <<db_req, db_lastrowid, db_scripts, db_resp>>
    /\ UNCHANGED notDb

\* "if not article": db.cursor.execute("SELECT id FROM articles")
DbDebugSelect(t) ==
    /\ db_pc[t] = "debug"
    /\ db_rows' = [k \in 1..Cardinality(StoredArticles) |-> k]
    /\ db_pc' = [db_pc EXCEPT ![t] = "debug_fetch"]
    /\ UNCHANGED <<db_req, db_lastrowid, db_scripts, db_article, db_resp>>
    /\ UNCHANGED notDb

\* db.cursor.fetchall(), then the 404 response.
DbNotFound(t) ==
    /\ db_pc[t] = "debug_fetch"
    /\ db_rows' = <<>>
    /\ db_resp' = [db_resp EXCEPT ![t] = [status |-> 404, script_id |-> 0]]
    /\ db_pc' = [db_pc EXCEPT ![t] = "responded"]
    /\ UNCHANGED <<db_req, db_lastrowid, db_scripts, db_article>>
    /\ UNCHANGED notDb

\* script_generator.generate_script(article['title'], ...): no database
\* access.
DbGenerate(t) ==
    /\ db_pc[t] = "generate"
    /\ db_pc' = [db_pc EXCEPT ![t] = "insert"]
    /\ UNCHANGED <<db_req, db_rows, db_lastrowid, db_scripts, db_article,
                   db_resp>>
    /\ UNCHANGED notDb

\* add_script: self.cursor.execute("INSERT INTO scripts ..."): the row gets
\* the next id, the cursor remembers it and holds no rows.
DbInsert(t) ==
    /\ db_pc[t] = "insert"
    /\ db_scripts' = Append(db_scripts, [article_id |-> db_req[t], by |-> t])
    /\ db_lastrowid' = Len(db_scripts) + 1
    /\ db_rows' = <<>>
    /\ db_pc' = [db_pc EXCEPT ![t] = "commit"]
    /\ UNCHANGED <<db_req, db_article, db_resp>>
    /\ UNCHANGED notDb

\* add_script: self.conn.commit()
DbCommit(t) ==
    /\ db_pc[t] = "commit"
    /\ db_pc' = [db_pc EXCEPT ![t] = "lastrowid"]
    /\ UNCHANGED <<db_req, db_rows, db_lastrowid, db_scripts, db_article,
                   db_resp>>
    /\ UNCHANGED notDb

\* add_script: "return self.cursor.lastrowid", then the response with
\* script_id.
DbRespond(t) ==
    /\ db_pc[t] = "lastrowid"
    /\ db_resp' = [db_resp EXCEPT
                     ![t] = [status |-> 200, script_id |-> db_lastrowid]]
    /\ db_pc' = [db_pc EXCEPT ![t] = "responded"]
    /\ UNCHANGED <<db_req, db_rows, db_lastrowid, db_scripts, db_article>>
    /\ UNCHANGED notDb

\* None of the calls added after the endpoints is running.
LateIdle == CvIdle /\ GsIdle /\ AsIdle /\ VtIdle /\ DbIdle

PureIdle ==
    ProbeIdle /\ SrtIdle /\ DvIdle /\ CtorIdle /\ CtIdle /\ NaIdle /\ LateIdle

\* Nothing but the calls added after the endpoints may be running.
EarlyIdle ==
    TtsIdle /\ RunIdle /\ ConcIdle /\ ProbeIdle /\ SrtIdle /\ DvIdle /\ CtorIdle
    /\ CtIdle /\ NaIdle

\* The two endpoints are not serving a request.
ApiIdle == CtIdle /\ NaIdle

InitSubs ==
    TtsIdle /\ RunIdle /\ ConcIdle /\ ProbeIdle /\ SrtInit /\ DvIdle /\ CtorIdle
    /\ ApiIdle /\ LateIdle

NextSubs == SrtSplit \/ SrtWrite \/ SrtReturn

SpecSubs == InitSubs /\ [][NextSubs]_vars

InitDownload ==
    TtsIdle /\ RunIdle /\ ConcIdle /\ ProbeIdle /\ SrtIdle /\ DvInit /\ CtorIdle
    /\ ApiIdle /\ LateIdle

NextDownload == DvCall

SpecDownload == InitDownload /\ [][NextDownload]_vars

InitCtor ==
    TtsIdle /\ RunIdle /\ ConcIdle /\ ProbeIdle /\ SrtIdle /\ DvIdle /\ CtorInit
    /\ ApiIdle /\ LateIdle

NextCtor == CtorCheck \/ CtorPrompt \/ CtorAnswer \/ CtorFinish

SpecCtor == InitCtor /\ [][NextCtor]_vars

InitCustomText ==
    TtsIdle /\ RunIdle /\ ConcIdle /\ ProbeIdle /\ SrtIdle /\ DvIdle /\ CtorIdle
    /\ CtInit /\ NaIdle /\ LateIdle

NextCustomText == CtMake \/ CtRecord

SpecCustomText == InitCustomText /\ [][NextCustomText]_vars

InitNews ==
    TtsIdle /\ RunIdle /\ ConcIdle /\ ProbeIdle /\ SrtIdle /\ DvIdle /\ CtorIdle
    /\ CtIdle /\ NaInit /\ LateIdle

NextNews == NaStore \/ NaStored \/ NaList \/ NaRespond

SpecNews == InitNews /\ [][NextNews]_vars

InitCreate == EarlyIdle /\ CvInit /\ GsIdle /\ AsIdle /\ VtIdle /\ DbIdle

NextCreate == CvCall

SpecCreate == InitCreate /\ [][NextCreate]_vars

InitScript == EarlyIdle /\ CvIdle /\ GsInit /\ AsIdle /\ VtIdle /\ DbIdle

NextScript == GsCall

SpecScript == InitScript /\ [][NextScript]_vars

InitAss == EarlyIdle /\ CvIdle /\ GsIdle /\ AsInit /\ VtIdle /\ DbIdle

NextAss == AsDialogue

SpecAss == InitAss /\ [][NextAss]_vars

InitFromText == EarlyIdle /\ CvIdle /\ GsIdle /\ AsIdle /\ VtInit /\ DbIdle

NextFromText ==
    \/ VtScript
    \/ VtSearch
    \/ VtSpeech
    \/ VtCreate
    \/ VtNarration
    \/ VtPipeline
    \/ VtVertical

SpecFromText == InitFromText /\ [][NextFromText]_vars

InitDb == EarlyIdle /\ CvIdle /\ GsIdle /\ AsIdle /\ VtIdle /\ DbInit

NextDb ==
    \E t \in Threads :
        \/ DbSelect(t)
        \/ DbFetch(t)
        \/ DbDebugSelect(t)
        \/ DbNotFound(t)
        \/ DbGenerate(t)
        \/ DbInsert(t)
        \/ DbCommit(t)
        \/ DbRespond(t)

SpecDb == InitDb /\ [][NextDb]_vars

Init ==
    /\ TtsIdle
    /\ ConcIdle
    /\ PureIdle
    /\ pc = "start"
    /\ ffmpeg_available \in BOOLEAN
    /\ WHISPER_AVAILABLE \in BOOLEAN
    /\ video_sources \in 0..MaxClips
    /\ temp_dir = "none"
    /\ duration = 0
    /\ i = 0
    /\ downloaded_video_paths = <<>>
    /\ clip_duration = NoDuration
    /\ processed_videos = <<>>
    /\ concat_list = <<>>
    /\ outdir = EmptyDir
    /\ subtitle = NoSubtitle
    /\ attempted = <<>>
    /\ result = "unset"
    /\ exit_path = "none"
    /\ dl_ok = {}
    /\ proc_ok = {}
    /\ muxed = FALSE
    /\ concat_output = "absent"

\* A return statement inside the main try block: the finally clause runs only
\* if the try block was entered.
AfterReturnNoFinally(v) == IF v = None THEN "done" ELSE "cleanup"

\* Every return inside the main try block passes through the finally clause.
AfterReturn(v) == "cleanup"

\* "return v" at the place named why, inside the main try block.
Return(v, why) ==
    /\ result' = v
    /\ exit_path' = why
    /\ pc' = AfterReturn(v)

\* The guards before the temporary directory exists, then mkdtemp.
\* Only the list of sources is checked before the pipeline starts.
EntryGuardsSourcesOnly(n, ffmpeg) == IF n = 0 THEN "no_sources" ELSE "run"

\* "if not video_sources: ... return None" and
\* "if not self.ffmpeg_available: ... return None", in this order.
EntryGuards(n, ffmpeg) ==
    IF n = 0 THEN "no_sources"
    ELSE IF ~ffmpeg THEN "no_ffmpeg"
    ELSE "run"

Start ==
    /\ pc = "start"
    /\ LET g == EntryGuards(video_sources, ffmpeg_available)
       IN  IF g = "run"
           THEN /\ temp_dir' = "exists" /\ pc' = "narration"
                /\ UNCHANGED <<result, exit_path>>
           ELSE /\ result' = None /\ exit_path' = g /\ pc' = "done"
                /\ UNCHANGED temp_dir
    /\ UNCHANGED <<ffmpeg_available, WHISPER_AVAILABLE, video_sources, duration,
                   i, downloaded_video_paths, clip_duration, processed_videos,
                   concat_list, outdir, subtitle, attempted, dl_ok, proc_ok, muxed,
                   concat_output>>
    /\ UNCHANGED <<ttsVars, concVars, pureVars>>

\* The narration check compares the return value with None.
NarrationFailedIsNone(ret) == ret = None

\* "if not self.generate_speech(script_text, audio_path): return None"
NarrationFailed(ret) == ret # "True"

\* 1. generate_speech(script_text, audio_path)
Narration ==
    /\ pc = "narration"
    /\ \E avail \in [Backends -> BOOLEAN] :
       \E outs \in [Backends -> {"ok", "empty", "nowrite", "raise", "raisePartial"}] :
         /\ \A b \in Backends : outs[b] \in TtsOutcomes(b)
         /\ tts_ret' = IF generate_speech(avail, outs).ok THEN "True" ELSE "False"
         /\ IF NarrationFailed(tts_ret')
            THEN Return(None, "narration")
            ELSE pc' = "probe" /\ UNCHANGED <<result, exit_path>>
    /\ UNCHANGED <<ffmpeg_available, WHISPER_AVAILABLE, video_sources, temp_dir,
                   duration, i, downloaded_video_paths, clip_duration,
                   processed_videos, concat_list, outdir, subtitle, attempted,
                   dl_ok, proc_ok, muxed,
                   concat_output>>
    /\ UNCHANGED <<tts_pc, tts_avail, audio, tts_log, tts_clean, tts_ok, tts_out,
                   tts_left>>
    /\ UNCHANGED <<concVars, pureVars>>

\* The check tests for None only.
NotDurationNoneOnly(d) == d.none

\* "if not duration": None and 0.0 are both falsy.
NotDuration(d) == d.none \/ d.value = 0

\* duration = get_audio_duration(audio_path); "if not duration: return None"
Probe ==
    /\ pc = "probe"
    /\ \E p \in PrimaryOutcomes : \E s \in SecondaryOutcomes :
         LET d == get_audio_duration(ffmpeg_available, p, s)
         IN  IF d.raised
             THEN Return(None, "exception") /\ UNCHANGED <<duration, i>>
             ELSE IF NotDuration(d)
             THEN Return(None, "probe") /\ UNCHANGED <<duration, i>>
             ELSE /\ duration' = d.value
                  /\ pc' = "download"
                  /\ i' = 1
                  /\ UNCHANGED <<result, exit_path>>
    /\ UNCHANGED <<ffmpeg_available, WHISPER_AVAILABLE, video_sources, temp_dir,
                   downloaded_video_paths, clip_duration, processed_videos,
                   concat_list, outdir, subtitle, attempted, dl_ok, proc_ok, muxed,
                   concat_output>>
    /\ UNCHANGED <<ttsVars, concVars, pureVars>>

\* ------------------------------------------------------------ 2. downloads
\* One turn of the download loop calls download_video with the source as it
\* was given (the loop's own extraction of the url field is the one
\* download_video repeats) on a fresh path of the temp directory.
\* "if self.download_video(...): downloaded_video_paths.append(video_path)"
KeepDownloaded(paths, src, ok) == IF ok THEN Append(paths, src) ELSE paths

Download ==
    /\ pc = "download"
    /\ i <= video_sources
    /\ \E u \in UrlArguments : \E r \in Responses : \E b \in Bodies :
       \E w \in WriteOutcomes :
         LET ok == download_video(u, r, b, w).ret
         IN  /\ downloaded_video_paths' = KeepDownloaded(downloaded_video_paths, i, ok)
             /\ dl_ok' = IF ok THEN dl_ok \cup {i} ELSE dl_ok
    /\ i' = i + 1
    /\ UNCHANGED <<pc, ffmpeg_available, WHISPER_AVAILABLE, video_sources,
                   temp_dir, duration, clip_duration, processed_videos,
                   concat_list, outdir, subtitle, attempted, result, exit_path,
                   proc_ok, muxed,
                   concat_output>>
    /\ UNCHANGED <<ttsVars, concVars, pureVars>>

\* The sidecar is written whatever the downloads gave.
AfterDownloadsUnchecked(paths) == "save_script"

\* "if not downloaded_video_paths: return None", else save the script.
AfterDownloads(paths) == IF paths = <<>> THEN "return" ELSE "save_script"

\* duration / clip_count
Allocate(d, n) == [num |-> d, den |-> n]

\* After the download loop: the no-clips check, the script sidecar written
\* into the output directory, the per-clip duration.
\* The download loop stops after the first source.
DownloadLoopDoneAfterFirst(k, n) == k > 1

\* "for i, source in enumerate(video_sources)" has gone through every source.
DownloadLoopDone(k, n) == k > n

DownloadsDone ==
    /\ pc = "download"
    /\ DownloadLoopDone(i, video_sources)
    /\ IF AfterDownloads(downloaded_video_paths) = "return"
       THEN /\ Return(None, "no_download")
            /\ UNCHANGED <<outdir, clip_duration, i>>
       ELSE \E w \in {"ok", "raise", "raisePartial"} :
              /\ outdir' = [outdir EXCEPT !["script"] =
                              CASE w = "ok" -> "script"
                                [] w = "raisePartial" -> "partial"
                                [] OTHER -> @]
              /\ IF w = "ok"
                 THEN /\ clip_duration' =
                            Allocate(duration, Len(downloaded_video_paths))
                      /\ pc' = "process"
                      /\ i' = 1
                      /\ UNCHANGED <<result, exit_path>>
                 ELSE /\ Return(None, "exception")
                      /\ UNCHANGED <<clip_duration, i>>
    /\ UNCHANGED <<ffmpeg_available, WHISPER_AVAILABLE, video_sources, temp_dir,
                   duration, downloaded_video_paths, processed_videos,
                   concat_list, subtitle, attempted, dl_ok, proc_ok, muxed,
                   concat_output>>
    /\ UNCHANGED <<ttsVars, concVars, pureVars>>

\* --------------------------------------------------------- 3. normalization
\* process_video: True only if ffmpeg exits 0 and the output is non-empty;
\* a missing input, a non-zero exit, an empty output or any exception give
\* False.
process_video(o) == o = "ok"

\* processed_videos.insert(0, processed_path)
KeepProcessedFront(list, clip, ok) == IF ok THEN <<clip>> \o list ELSE list

\* "if success: processed_videos.append(processed_path)"
KeepProcessed(list, clip, ok) == IF ok THEN Append(list, clip) ELSE list

Process ==
    /\ pc = "process"
    /\ i <= Len(downloaded_video_paths)
    /\ \E o \in {"ok", "exit", "empty", "raise"} :
         LET ok == process_video(o)
             clip == [src |-> downloaded_video_paths[i], dur |-> clip_duration]
         IN  /\ processed_videos' = KeepProcessed(processed_videos, clip, ok)
             /\ proc_ok' = IF ok THEN proc_ok \cup {clip.src} ELSE proc_ok
    /\ i' = i + 1
    /\ UNCHANGED <<pc, ffmpeg_available, WHISPER_AVAILABLE, video_sources,
                   temp_dir, duration, downloaded_video_paths, clip_duration,
                   concat_list, outdir, subtitle, attempted, result, exit_path,
                   dl_ok, muxed,
                   concat_output>>
    /\ UNCHANGED <<ttsVars, concVars, pureVars>>

\* ------------------------------------------------------------ 4. concat
\* After the process loop: the no-processed-clip check, concat_list.txt, the
\* concat command (CalledProcessError is fatal; any other exception reaches
\* the main handler).
\* The concat list is written whatever the normalization gave.
AfterProcessingUnchecked(list) == "concat"

\* "if not processed_videos: return None", else concatenate.
AfterProcessing(list) == IF list = <<>> THEN "return" ELSE "concat"

\* subprocess.run(concat_cmd, check=True): CalledProcessError returns None;
\* anything else raised here (or by writing concat_list.txt) reaches the main
\* handler.
AfterConcat(o) ==
    CASE o = "ok" -> "mux"
      [] o \in {"exit", "exitPartial"} -> "return"
      [] OTHER -> "handler"

Concat ==
    /\ pc = "process"
    /\ i > Len(downloaded_video_paths)
    /\ IF AfterProcessing(processed_videos) = "return"
       THEN Return(None, "no_processed")
            /\ UNCHANGED <<concat_list, concat_output>>
       ELSE \E o \in {"ok", "exit", "exitPartial", "raise", "listfail"} :
              /\ concat_list' = IF o = "listfail" THEN <<>> ELSE processed_videos
              /\ concat_output' = CASE o = "ok" -> "video"
                                     [] o = "exitPartial" -> "partial"
                                     [] OTHER -> "absent"
              /\ CASE AfterConcat(o) = "mux" ->
                        pc' = "mux" /\ UNCHANGED <<result, exit_path>>
                   [] AfterConcat(o) = "return" -> Return(None, "concat")
                   [] OTHER -> Return(None, "exception")
    /\ UNCHANGED <<ffmpeg_available, WHISPER_AVAILABLE, video_sources, temp_dir,
                   duration, i, downloaded_video_paths, clip_duration,
                   processed_videos, outdir, subtitle, attempted, dl_ok, proc_ok,
                   muxed>>
    /\ UNCHANGED <<ttsVars, concVars, pureVars>>

\* -------------------------------------------------------------- 5. mux
\* A failing mux command is only logged and the subtitle stages run.
AfterMuxIgnored(o) == IF o = "raise" THEN "handler" ELSE "subtitles"

\* subprocess.run(final_cmd, check=True): CalledProcessError returns None
\* (the handler after the subtitle block); anything else reaches the main
\* handler.
AfterMux(o) ==
    CASE o = "ok" -> "subtitles"
      [] o \in {"exit", "exitPartial"} -> "return"
      [] OTHER -> "handler"

\* ffmpeg -y output_path: a failing command may already have written part of
\* its output.
Mux ==
    /\ pc = "mux"
    /\ \E o \in {"ok", "exit", "exitPartial", "raise"} :
         /\ outdir' = [outdir EXCEPT !["video"] =
                         CASE o = "ok" -> "narrated"
                           [] o = "exitPartial" -> "partial"
                           [] OTHER -> @]
         /\ CASE AfterMux(o) = "subtitles" ->
                   pc' = "subtitles" /\ UNCHANGED <<result, exit_path>>
              [] AfterMux(o) = "return" -> Return(None, "mux")
              [] OTHER -> Return(None, "exception")
    /\ muxed' = (outdir'["video"] = "narrated")
    /\ UNCHANGED <<ffmpeg_available, WHISPER_AVAILABLE, video_sources, temp_dir,
                   duration, i, downloaded_video_paths, clip_duration,
                   processed_videos, concat_list, subtitle, attempted, dl_ok,
                   proc_ok, concat_output>>
    /\ UNCHANGED <<ttsVars, concVars, pureVars>>

\* ------------------------------------------------- 6. subtitle file
\* transcribe_audio never raises; it returns segments or None.
\* generate_ass_subtitles returns the path, or None on any exception.
\* generate_simple_subtitles' return value is ignored: subtitle_path stays
\* set and only os.path.exists(subtitle_path) decides.
GenOutcomes == {"ok", "fail", "failPartial"}

SubtitleFile ==
    /\ pc = "subtitles"
    /\ \E segments \in BOOLEAN : \E g \in GenOutcomes :
         /\ segments => WHISPER_AVAILABLE
         /\ subtitle' =
              IF segments
              THEN [kind |-> "ass", exists |-> g # "fail", path |-> g = "ok"]
              ELSE [kind |-> "srt", exists |-> g # "fail", path |-> TRUE]
    /\ pc' = IF subtitle'.path /\ subtitle'.exists THEN "burn" ELSE "hardcoded"
    /\ UNCHANGED <<ffmpeg_available, WHISPER_AVAILABLE, video_sources, temp_dir,
                   duration, i, downloaded_video_paths, clip_duration,
                   processed_videos, concat_list, outdir, attempted, result,
                   exit_path, dl_ok, proc_ok, muxed,
                   concat_output>>
    /\ UNCHANGED <<ttsVars, concVars, pureVars>>

\* --------------------------------------------------- 7. burn_subtitles
FfmpegOutcomes == {"ok", "nofile", "exit", "exitPartial", "raise"}

\* The file at an output path after an "ffmpeg -y" run with outcome o that
\* would write content c there.
Written(old, o, c) ==
    CASE o = "ok" -> c
      [] o = "nofile" -> "absent"
      [] o = "exitPartial" -> "partial"
      [] OTHER -> old

\* seq_output_path = output_path.replace(".mp4", "_sequential.mp4")
seq_output_path == "sequential"

\* caption_output_path = output_path.replace(".mp4", "_caption.mp4")
caption_output_path == "caption"

\* simplified_output_path = output_path.replace(".mp4", "_simple_subs.mp4")
simplified_output_path == "simple_subs"

\* The caller passes the narrated video itself as the burn's output.
subtitled_in_place == "video"

\* subtitled_output_path = output_path.replace(".mp4", "_subtitled.mp4")
subtitled_output_path == "subtitled"

\* The primary burn.  Only CalledProcessError leads to the SRT retry; exit 0
\* without an output file returns None and any other exception returns the
\* input video, both without a retry.
BurnPrimary ==
    /\ pc = "burn"
    /\ attempted' = Append(attempted, "primary")
    /\ \E o \in FfmpegOutcomes :
         /\ outdir' = [outdir EXCEPT ![subtitled_output_path] =
                         Written(@, o, "burn_primary")]
         /\ CASE o = "ok" -> Return(subtitled_output_path, "success")
              [] o \in {"exit", "exitPartial"} ->
                   pc' = "burn_fallback" /\ UNCHANGED <<result, exit_path>>
              [] OTHER -> pc' = "sequential" /\ UNCHANGED <<result, exit_path>>
    /\ UNCHANGED <<ffmpeg_available, WHISPER_AVAILABLE, video_sources, temp_dir,
                   duration, i, downloaded_video_paths, clip_duration,
                   processed_videos, concat_list, subtitle, dl_ok, proc_ok,
                   muxed,
                   concat_output>>
    /\ UNCHANGED <<ttsVars, concVars, pureVars>>

\* _convert_ass_to_srt, then the retry if the .srt file exists.  For an .srt
\* subtitle file srt_path is subtitle_path itself, which exists.
BurnFallback ==
    /\ pc = "burn_fallback"
    /\ \E c \in GenOutcomes : \E o \in FfmpegOutcomes :
         LET srt_exists == subtitle.kind = "srt" \/ c # "fail"
         IN  IF srt_exists
             THEN /\ attempted' = Append(attempted, "fallback")
                  /\ outdir' = [outdir EXCEPT ![subtitled_output_path] =
                                  Written(@, o, "burn_fallback")]
                  /\ IF o = "ok"
                     THEN Return(subtitled_output_path, "success")
                     ELSE pc' = "sequential" /\ UNCHANGED <<result, exit_path>>
             ELSE /\ pc' = "sequential"
                  /\ UNCHANGED <<attempted, outdir, result, exit_path>>
    /\ UNCHANGED <<ffmpeg_available, WHISPER_AVAILABLE, video_sources, temp_dir,
                   duration, i, downloaded_video_paths, clip_duration,
                   processed_videos, concat_list, subtitle, dl_ok, proc_ok,
                   muxed,
                   concat_output>>
    /\ UNCHANGED <<ttsVars, concVars, pureVars>>

\* ------------------------------------------ 8. create_sequential_captions
\* The segment loop, the concat of the segments and the removal of the
\* temporary files.  Every failure (a segment, the concat, the clean-up, a
\* missing output) ends in the method's own call of create_caption_overlay
\* on the sequential output path; the temporary files then stay.
SeqOutcomes == {"ok", "segment", "concat", "concatPartial", "cleanup", "nofile"}

\* The method goes on to the fixed caption whatever the segments gave.
AfterSequentialAlwaysCaption(o) == "caption_overlay"

\* "return output_path" after the clean-up if the output exists; every other
\* end of the method is "return self.create_caption_overlay(...)".
AfterSequential(o) == IF o = "ok" THEN "return" ELSE "caption_overlay"

SequentialCaptions ==
    /\ pc = "sequential"
    /\ attempted' = Append(attempted, "sequential")
    /\ \E o \in SeqOutcomes :
         /\ outdir' = [outdir EXCEPT
                !["seq_temp"] = IF o \in {"ok", "nofile"} THEN "absent" ELSE "temp",
                !["seq_concat"] =
                    IF o \in {"concat", "concatPartial", "cleanup"} THEN "temp"
                    ELSE "absent",
                ![seq_output_path] =
                    CASE o \in {"ok", "cleanup"} -> "segmented"
                      [] o = "concatPartial" -> "partial"
                      [] OTHER -> "absent"]
         /\ IF AfterSequential(o) = "return"
            THEN Return(seq_output_path, "success")
            ELSE pc' = "seq_fallback" /\ UNCHANGED <<result, exit_path>>
    /\ UNCHANGED <<ffmpeg_available, WHISPER_AVAILABLE, video_sources, temp_dir,
                   duration, i, downloaded_video_paths, clip_duration,
                   processed_videos, concat_list, subtitle, dl_ok, proc_ok,
                   muxed,
                   concat_output>>
    /\ UNCHANGED <<ttsVars, concVars, pureVars>>

\* create_caption_overlay never raises: the output path, or None.
create_caption_overlay(o, out) == IF o = "ok" THEN out ELSE None

\* "return self.create_caption_overlay(video_path, script_text, output_path)"
\* inside create_sequential_captions, then the caller's
\* "if seq_result and os.path.exists(seq_result)".
SequentialFallbackCaption ==
    /\ pc = "seq_fallback"
    /\ attempted' = Append(attempted, "fixed")
    /\ \E o \in FfmpegOutcomes :
         LET seq_result == create_caption_overlay(o, seq_output_path)
         IN  /\ outdir' = [outdir EXCEPT ![seq_output_path] =
                             Written(@, o, "fixed_caption")]
             /\ IF seq_result # None /\ outdir'[seq_result] # "absent"
                THEN Return(seq_result, "success")
                ELSE pc' = "caption" /\ UNCHANGED <<result, exit_path>>
    /\ UNCHANGED <<ffmpeg_available, WHISPER_AVAILABLE, video_sources, temp_dir,
                   duration, i, downloaded_video_paths, clip_duration,
                   processed_videos, concat_list, subtitle, dl_ok, proc_ok,
                   muxed,
                   concat_output>>
    /\ UNCHANGED <<ttsVars, concVars, pureVars>>

\* --------------------------------------------------- 9. fixed caption
\* Every strategy failed and the call returns nothing.
final_output_path_none == None

\* "final_output_path = output_path": what is returned when no strategy
\* produced a file.
final_output_path_default == "video"

\* The caller's last resort: create_caption_overlay on the caption path.
FixedCaption ==
    /\ pc = "caption"
    /\ attempted' = Append(attempted, "fixed")
    /\ \E o \in FfmpegOutcomes :
         LET caption_result == create_caption_overlay(o, caption_output_path)
         IN  /\ outdir' = [outdir EXCEPT ![caption_output_path] =
                             Written(@, o, "fixed_caption")]
             /\ IF caption_result # None /\ outdir'[caption_result] # "absent"
                THEN Return(caption_result, "success")
                ELSE Return(final_output_path_default, "success")
    /\ UNCHANGED <<ffmpeg_available, WHISPER_AVAILABLE, video_sources, temp_dir,
                   duration, i, downloaded_video_paths, clip_duration,
                   processed_videos, concat_list, subtitle, dl_ok, proc_ok,
                   muxed,
                   concat_output>>
    /\ UNCHANGED <<ttsVars, concVars, pureVars>>

\* ------------------------------------- 10. create_hardcoded_subtitles
\* Used when no subtitle file is available.  It writes simple_subs.vtt next
\* to its output and never removes it; any exception gives None.
DirectTextOverlay ==
    /\ pc = "hardcoded"
    /\ \E early \in BOOLEAN : \E o \in FfmpegOutcomes :
         IF early
         THEN /\ Return(final_output_path_default, "success")
              /\ UNCHANGED outdir
         ELSE /\ outdir' = [outdir EXCEPT
                    !["vtt"] = "temp",
                    ![simplified_output_path] = Written(@, o, "overlay")]
              /\ IF o = "ok"
                 THEN Return(simplified_output_path, "success")
                 ELSE Return(final_output_path_default, "success")
    /\ UNCHANGED <<ffmpeg_available, WHISPER_AVAILABLE, video_sources, temp_dir,
                   duration, i, downloaded_video_paths, clip_duration,
                   processed_videos, concat_list, subtitle, attempted, dl_ok,
                   proc_ok, muxed,
                   concat_output>>
    /\ UNCHANGED <<ttsVars, concVars, pureVars>>

\* ------------------------------------------------------------- finally
\* shutil.rmtree(temp_dir) inside try/except: a failing removal is logged and
\* the directory stays.
Cleanup ==
    /\ pc = "cleanup"
    /\ \E removed \in BOOLEAN :
         temp_dir' = IF removed THEN "removed" ELSE "kept"
    /\ pc' = "done"
    /\ UNCHANGED <<ffmpeg_available, WHISPER_AVAILABLE, video_sources, duration,
                   i, downloaded_video_paths, clip_duration, processed_videos,
                   concat_list, outdir, subtitle, attempted, result, exit_path,
                   dl_ok, proc_ok, muxed,
                   concat_output>>
    /\ UNCHANGED <<ttsVars, concVars, pureVars>>

Next ==
    \/ Start
    \/ Narration
    \/ Probe
    \/ Download
    \/ DownloadsDone
    \/ Process
    \/ Concat
    \/ Mux
    \/ SubtitleFile
    \/ BurnPrimary
    \/ BurnFallback
    \/ SequentialCaptions
    \/ SequentialFallbackCaption
    \/ FixedCaption
    \/ DirectTextOverlay
    \/ Cleanup

Spec == Init /\ [][Next]_vars

\* The stages that wait for ffprobe or ffmpeg.
ProcessStages == {"probe", "process", "mux", "burn", "burn_fallback",
                  "sequential", "seq_fallback", "caption", "hardcoded"}

\* Every subprocess.run(...) of the pipeline is called without a timeout
\* argument: the call waits for the process without limit.
ProcessTimeout == None

\* The external process of the current stage never exits: subprocess.run does
\* not return and the run stays where it is.
Hang ==
    /\ pc \in ProcessStages
    /\ ProcessTimeout = None
    /\ pc' = "blocked"
    /\ UNCHANGED <<ffmpeg_available, WHISPER_AVAILABLE, video_sources, temp_dir,
                   duration, i, downloaded_video_paths, clip_duration,
                   processed_videos, concat_list, outdir, subtitle, attempted,
                   result, exit_path, dl_ok, proc_ok, muxed, concat_output>>
    /\ UNCHANGED <<ttsVars, concVars, pureVars>>

NextHang ==
    \/ Start
    \/ Narration
    \/ Probe
    \/ Download
    \/ DownloadsDone
    \/ Process
    \/ Concat
    \/ Mux
    \/ SubtitleFile
    \/ BurnPrimary
    \/ BurnFallback
    \/ SequentialCaptions
    \/ SequentialFallbackCaption
    \/ FixedCaption
    \/ DirectTextOverlay
    \/ Cleanup
    \/ Hang

\* The pipeline with external processes that may hang.  The interpreter goes
\* on with the next statement whenever there is one to run.
SpecHang == Init /\ [][NextHang]_vars /\ WF_vars(NextHang)

InitProbe ==
    TtsIdle /\ RunIdle /\ ConcIdle /\ ProbeInit /\ SrtIdle /\ DvIdle /\ CtorIdle
    /\ ApiIdle /\ LateIdle

NextProbe == ProbeCall

SpecProbe == InitProbe /\ [][NextProbe]_vars

TtsNext == SkipBackend \/ TryBackend \/ AllBackendsFailed

\* One call of generate_speech on a fresh output path, for every setting of
\* the availability flags.
InitTTS == TtsInit /\ RunIdle /\ ConcIdle /\ PureIdle

SpecTTS == InitTTS /\ [][TtsNext]_vars

\* ================================================ concurrent invocations
\* The wall clock advances between any two steps of any thread.
Tick ==
    /\ clock < MaxClock
    /\ clock' = clock + 1
    /\ UNCHANGED <<run_pc, run_ts, run_files>>
    /\ UNCHANGED <<ttsVars, runVars, pureVars>>

\* A request reaches create_video_with_narration: the timestamp is read.
RunStart(t) ==
    /\ run_pc[t] = "idle"
    /\ run_ts' = [run_ts EXCEPT ![t] = clock]
    /\ run_pc' = [run_pc EXCEPT ![t] = "script"]
    /\ UNCHANGED <<clock, run_files>>
    /\ UNCHANGED <<ttsVars, runVars, pureVars>>

\* The invocation writes its next file: the script sidecar, then the muxed
\* video, then the outputs and temporary files of one subtitle stage.
RunWrite(t) ==
    /\ run_pc[t] \in {"script", "video", "subtitles"}
    /\ \E name \in OutNames :
         /\ run_pc[t] = "script" => name = "script"
         /\ run_pc[t] = "video" => name = "video"
         /\ run_pc[t] = "subtitles" => name \notin {"script", "video"}
         /\ run_files' = [run_files EXCEPT ![t] = @ \cup {PathOf(run_ts[t], name)}]
    /\ run_pc' = [run_pc EXCEPT ![t] =
                    CASE @ = "script" -> "video"
                      [] @ = "video" -> "subtitles"
                      [] OTHER -> "returned"]
    /\ UNCHANGED <<clock, run_ts>>
    /\ UNCHANGED <<ttsVars, runVars, pureVars>>

InitConc == TtsIdle /\ RunIdle /\ ConcIdle /\ PureIdle

NextConc ==
    \/ Tick
    \/ \E t \in Threads : RunStart(t)
    \/ \E t \in Threads : RunWrite(t)

SpecConc == InitConc /\ [][NextConc]_vars

\* ================================================================ claims
Strategies == {"primary", "fallback", "sequential", "fixed"}

SubtitledContents ==
    {"burn_primary", "burn_fallback", "segmented", "fixed_caption", "overlay"}

SubtitleOutputs ==
    {subtitled_output_path, seq_output_path, caption_output_path,
     simplified_output_path}

Returned == pc = "done"

C2_TempDirGoneOnReturn ==
    (Returned /\ temp_dir # "none") => temp_dir = "removed"

\* C2 (amended): on every exit path taken after the temporary directory was
\* created the removal has been run before the call returns; the directory
\* is left only by a removal that itself failed, and only the two guards in
\* front of mkdtemp return without a directory.
C2_CleanupRunsOnEveryExit ==
    Returned =>
        /\ temp_dir \in {"none", "removed", "kept"}
        /\ temp_dir = "none" <=> exit_path \in {"no_sources", "no_ffmpeg"}

\* A run that failed at the mux and whose directory is gone on return.
C2_Witness ==
    Returned /\ exit_path = "mux" /\ temp_dir = "removed"

RECURSIVE SumNum(_)
SumNum(clips) ==
    IF clips = <<>> THEN 0 ELSE Head(clips).dur.num + SumNum(Tail(clips))

\* C3: every clip that reaches concatenation was allocated duration / N, and
\* the allocated durations of the concatenated clips add up to the narration
\* duration (num/den fractions with the common denominator N).
C3_AllocatedDurationsSumToNarration ==
    concat_list # <<>> =>
        /\ \A k \in 1..Len(concat_list) :
             concat_list[k].dur =
                 [num |-> duration, den |-> Len(downloaded_video_paths)]
        /\ SumNum(concat_list) = duration * Len(downloaded_video_paths)

\* C5: a call that returns None leaves no file in the output directory, in
\* particular none at the output video path.
C5_NoOutputFileOnFatalError ==
    (Returned /\ result = None) => \A f \in OutNames : outdir[f] = "absent"

\* The priority order the claim names.
ClaimedOrder == <<"elevenlabs", "pyttsx3", "gtts">>

IsAvailable(b) == tts_avail[b]

AvailableInOrder == SelectSeq(ClaimedOrder, IsAvailable)

IsPrefix(a, b) == Len(a) <= Len(b) /\ \A k \in 1..Len(a) : a[k] = b[k]

C6_NoSharedOutputPath ==
    \A t1 \in Threads : \A t2 \in Threads :
        t1 # t2 => run_files[t1] \cap run_files[t2] = {}

Rank(s) ==
    CASE s = "primary" -> 1 [] s = "fallback" -> 2
      [] s = "sequential" -> 3 [] OTHER -> 4

\* What a successful attempt of a strategy leaves at the path it returns.
Product(s) ==
    CASE s = "primary" -> "burn_primary" [] s = "fallback" -> "burn_fallback"
      [] s = "sequential" -> "segmented" [] OTHER -> "fixed_caption"

\* C7: the burn-in strategies run in the order primary, fallback, sequential,
\* fixed: a strategy is attempted only after every earlier strategy of that
\* order has been attempted in the same run, no strategy is attempted after
\* a later one, and the run ends at the first success, so that a returned
\* burn-in output is the product of the last attempt.
C7_StrategiesInFixedOrder ==
    /\ \A k \in 1..Len(attempted) :
         \A s \in Strategies :
           Rank(s) < Rank(attempted[k]) =>
               \E j \in 1..(k - 1) : attempted[j] = s
    /\ \A k \in 1..(Len(attempted) - 1) :
         Rank(attempted[k]) <= Rank(attempted[k + 1])
    /\ (pc \in {"cleanup", "done"}
          /\ result \in {subtitled_output_path, seq_output_path,
                         caption_output_path}) =>
         /\ attempted # <<>>
         /\ outdir[result] = Product(attempted[Len(attempted)])

\* C8: no subtitle stage writes to or removes the narrated video: from the
\* successful mux on, the file at the output path is the muxed video.
C8_NarratedVideoUntouched ==
    muxed => outdir["video"] = "narrated"

\* The whole cascade ran, leaving files at every subtitle output path it
\* uses, and the narrated video is what the mux wrote.
C8_Witness ==
    /\ Returned /\ muxed /\ outdir["video"] = "narrated"
    /\ outdir[subtitled_output_path] = "partial"
    /\ outdir[seq_output_path] = "partial"
    /\ outdir[caption_output_path] = "fixed_caption"

DownloadLoopOver ==
    \/ pc = "download" /\ i > video_sources
    \/ pc \notin {"start", "narration", "probe", "download"}
         /\ exit_path \notin {"no_sources", "no_ffmpeg", "narration", "probe"}

\* C9: when no clip source could be downloaded the call returns None at the
\* no-clips check, and neither the script sidecar nor any other output file
\* is written, no clip is normalized, and concat and mux are not run.
C9_NoClipsNoOutput ==
    (DownloadLoopOver /\ dl_ok = {}) =>
        /\ pc \in {"download", "cleanup", "done"}
        /\ pc # "download" => result = None /\ exit_path = "no_download"
        /\ outdir = EmptyDir
        /\ processed_videos = <<>> /\ concat_list = <<>> /\ ~muxed

C9_Witness ==
    /\ Returned /\ exit_path = "no_download" /\ video_sources >= 2
    /\ result = None /\ outdir = EmptyDir

RECURSIVE Ascending(_, _, _)
\* The members of S among lo..hi, in ascending order.
Ascending(lo, hi, S) ==
    IF lo > hi THEN <<>>
    ELSE (IF lo \in S THEN <<lo>> ELSE <<>>) \o Ascending(lo + 1, hi, S)

Sources(clips) == [k \in 1..Len(clips) |-> clips[k].src]

\* C10: a failed download does not end the download loop, and the concat
\* list holds exactly the sources whose download and normalization both
\* succeeded, in request order.
C10_ConcatListIsOrderedSurvivors ==
    /\ pc = "download" =>
         downloaded_video_paths = Ascending(1, i - 1, dl_ok)
    /\ DownloadLoopOver =>
         downloaded_video_paths = Ascending(1, video_sources, dl_ok)
    /\ pc = "mux" => concat_list # <<>>
    /\ concat_list # <<>> =>
         Sources(concat_list) = Ascending(1, video_sources, dl_ok \cap proc_ok)

\* The second of three sources failed to download; the first and the third
\* are in the concat list.
C10_Witness ==
    /\ pc = "mux" /\ video_sources >= 3
    /\ 2 \notin dl_ok
    /\ Sources(concat_list) = <<1, 3>>

SubtitlePcs == {"subtitles", "burn", "burn_fallback", "sequential",
                "seq_fallback", "caption", "hardcoded"}

\* The process loop has been left.
ProcessLoopOver ==
    \/ pc \in {"mux"} \cup SubtitlePcs
    \/ pc = "process" /\ i > Len(downloaded_video_paths)
    \/ pc \in {"cleanup", "done"}
         /\ \/ exit_path \in {"no_processed", "concat", "mux", "success"}
            \/ exit_path = "exception" /\ clip_duration # NoDuration

\* The concat list was written or the concat command was run.
ConcatAttempted ==
    \/ concat_list # <<>>
    \/ concat_output # "absent"
    \/ exit_path = "concat"
    \/ pc = "mux"
    \/ muxed

SubtitleStageStarted ==
    \/ pc \in SubtitlePcs
    \/ subtitle # NoSubtitle
    \/ attempted # <<>>
    \/ \E f \in SubtitleOutputs \cup {"vtt", "seq_temp", "seq_concat"} :
         outdir[f] # "absent"

\* C12: a failed concat or mux command ends the call with None: the mux runs
\* only on the output of a successful concat, the subtitle stages run only
\* after a successful mux, and after a failure of either command nothing of
\* the later stages has run.
C12_ConcatAndMuxFailuresAreFatal ==
    /\ exit_path \in {"concat", "mux"} =>
         /\ pc \in {"cleanup", "done"}
         /\ result = None
         /\ ~SubtitleStageStarted
    /\ exit_path = "concat" => ~muxed /\ outdir["video"] = "absent"
    /\ (pc = "mux" \/ muxed \/ outdir["video"] # "absent") =>
         concat_output = "video"
    /\ SubtitleStageStarted => muxed

\* The concat succeeded, the mux failed part-way through its output, and the
\* call returned None.
C12_Witness ==
    /\ Returned /\ exit_path = "mux" /\ result = None
    /\ concat_output = "video" /\ outdir["video"] = "partial"

ReturnedNormally(o) == o \in {"ok", "empty", "nowrite"}

C14_EachAttemptStartsClean ==
    \A k \in 1..Len(tts_clean) : tts_clean[k]

\* C15: generate_speech fails only with every available backend attempted, in
\* order, and none verified (an empty list when none is available); the
\* pipeline then returns None at the narration check, before any download.
C15_NarrationFailureIsFatal ==
    /\ pc = "narration" =>
         \A avail \in [Backends -> BOOLEAN] :
         \A outs \in [Backends -> {"ok", "empty", "nowrite", "raise",
                                   "raisePartial"}] :
           LET r == generate_speech(avail, outs)
           IN  ((\A b \in Backends : outs[b] \in TtsOutcomes(b)) /\ ~r.ok) =>
                 /\ r.log = SelectSeq(ClaimedOrder, LAMBDA b : avail[b])
                 /\ \A b \in Backends : avail[b] => outs[b] # "ok"
    /\ tts_ret = "False" =>
         /\ pc \in {"cleanup", "done"}
         /\ result = None /\ exit_path = "narration"
         /\ i = 0 /\ dl_ok = {} /\ downloaded_video_paths = <<>>
         /\ outdir = EmptyDir
    /\ exit_path = "narration" => tts_ret = "False"

\* The narration failed and the call returned None with nothing downloaded.
C15_Witness ==
    /\ Returned /\ tts_ret = "False" /\ exit_path = "narration"
    /\ result = None /\ dl_ok = {} /\ temp_dir = "removed"

ProbeReturned == gad_pc = "returned"

\* Neither strategy can give a duration for the file.
NeitherYields == gad_primary.kind # "duration" /\ gad_secondary.kind # "duration"

\* C16 (as stated): get_audio_duration never raises and always returns a
\* number, the default 30.0 when neither strategy yields a duration.
C16_AlwaysANumber ==
    ProbeReturned =>
        /\ ~gad_ret.raised
        /\ ~gad_ret.none
        /\ NeitherYields => gad_ret.value = DefaultDuration

\* C16 (amended): get_audio_duration never raises; on an object without
\* ffmpeg it returns None without probing; with ffmpeg it returns a number,
\* which is a duration one of the tools reported or the default 30.0, and is
\* the default when neither strategy yields a duration.
C16_NumberUnlessNoFfmpeg ==
    ProbeReturned =>
        /\ ~gad_ret.raised
        /\ gad_ret.none <=> ~gad_ffmpeg
        /\ gad_ffmpeg =>
             /\ \/ gad_ret.value = DefaultDuration
                \/ gad_primary.kind = "duration" /\ gad_ret.value = gad_primary.d
                \/ gad_secondary.kind = "duration"
                     /\ gad_ret.value = gad_secondary.d
             /\ NeitherYields => gad_ret.value = DefaultDuration

\* ffprobe's output is not JSON, "ffmpeg -i" fails to start, and the default
\* comes back.
C16_Witness ==
    /\ ProbeReturned /\ gad_ffmpeg
    /\ gad_primary.kind = "badjson" /\ gad_secondary.kind = "raise"
    /\ ~gad_ret.none /\ gad_ret.value = DefaultDuration

\* C17: whenever the primary strategy gives no duration the secondary one is
\* run before anything is returned, so the default comes only after both.
C17_SecondaryBeforeDefault ==
    (ProbeReturned /\ gad_ffmpeg /\ gad_primary.kind # "duration") =>
        gad_ret.secondary

DurationAllocated == clip_duration # NoDuration

\* C18: past the probe the narration duration is positive, and so is every
\* duration handed to the division, to clip normalization and to the
\* subtitle timing.
C18_DurationPositive ==
    /\ (pc \in {"download", "process", "mux"} \cup SubtitlePcs) => duration > 0
    /\ DurationAllocated =>
         /\ duration > 0
         /\ clip_duration.num = duration /\ clip_duration.den > 0
    /\ \A k \in 1..Len(processed_videos) : processed_videos[k].dur.num > 0
    /\ (Returned /\ exit_path = "probe") =>
         result = None /\ duration = 0 /\ ~DurationAllocated

\* The probe gave a duration and two clips share it.
C18_Witness ==
    /\ pc = "process" /\ duration = 1
    /\ clip_duration = Allocate(1, 2)

Count(seq, x) == Cardinality({k \in 1..Len(seq) : seq[k] = x})

\* C19: whatever way the primary burn failed, the burn is retried exactly
\* once with the converted subtitle file before the segmented captions are
\* tried.
C19_RetryAfterAnyPrimaryFailure ==
    (pc = "sequential" \/ Count(attempted, "sequential") > 0) =>
        /\ Count(attempted, "primary") = 1
        /\ Count(attempted, "fallback") = 1

\* The segment loop, the concat of the segments and the removal of the
\* temporary files all went through and the output exists.
SequentialSucceeded ==
    /\ Count(attempted, "sequential") > 0
    /\ outdir[seq_output_path] = "segmented"
    /\ outdir["seq_temp"] = "absent"
    /\ outdir["seq_concat"] = "absent"

\* C20: when the segmented captions succeed after the burns failed, the call
\* returns the sequential-captions output, which holds the segmented video,
\* and the fixed caption is not attempted.
C20_SegmentedCaptionsReturned ==
    SequentialSucceeded =>
        /\ pc \in {"cleanup", "done"}
        /\ result = seq_output_path /\ exit_path = "success"
        /\ attempted[Len(attempted)] = "sequential"
        /\ Count(attempted, "fixed") = 0

\* Both burns failed, the segmented captions succeeded and their output was
\* returned.
C20_Witness ==
    /\ Returned /\ attempted = <<"primary", "fallback", "sequential">>
    /\ result = seq_output_path /\ outdir[seq_output_path] = "segmented"

\* The subtitle-file step has run.
SubtitleFileDone == muxed /\ pc # "subtitles"

\* C21: once the subtitle-file step has run there is exactly one subtitle
\* track for the burn: subtitle_path names a file that exists, which is the
\* time-aligned .ass track (only with Whisper available) or the
\* evenly-divided .srt track; never none.
C21_ExactlyOneSubtitleTrack ==
    SubtitleFileDone =>
        /\ subtitle.kind \in {"ass", "srt"}
        /\ subtitle.path /\ subtitle.exists
        /\ subtitle.kind = "ass" => WHISPER_AVAILABLE

\* The timestamp of a whole number of milliseconds.
StampOfMs(ms) ==
    [hours |-> ms \div 3600000, minutes |-> (ms % 3600000) \div 60000,
     secs |-> (ms % 60000) \div 1000, msecs |-> ms % 1000]

\* i * D / k seconds, cut off to whole milliseconds.
EvenMs(j, d, k) == (j * d * 1000) \div k

\* C22: the file written by generate_simple_subtitles holds one entry per
\* chunk, numbered 1..k in text order; entry j (1-based) runs from
\* (j-1)*D/k to j*D/k (to the millisecond), each entry starts where the one
\* before ends, the first starts at 0 and the last ends at D.
C22_EvenlyDividedEntries ==
    (srt_pc = "returned" /\ srt_ret = "path") =>
        LET k == Len(srt_chunks)
        IN  /\ Len(srt_entries) = k
            /\ \A j \in 1..k :
                 /\ srt_entries[j].n = j
                 /\ srt_entries[j].chunk = srt_chunks[j]
                 /\ srt_entries[j].start = StampOfMs(EvenMs(j - 1, srt_duration, k))
                 /\ srt_entries[j].end = StampOfMs(EvenMs(j, srt_duration, k))
            /\ \A j \in 1..(k - 1) : srt_entries[j].end = srt_entries[j + 1].start
            /\ k > 0 =>
                 /\ srt_entries[1].start = StampOfMs(0)
                 /\ srt_entries[k].end = StampOfMs(srt_duration * 1000)

\* The causes of a failed run that the three failure states name.
ListedCauses == {"narration", "no_download", "no_processed", "concat", "mux"}

StageRank(p) ==
    CASE p = "start" -> 0
      [] p = "narration" -> 1
      [] p = "probe" -> 2
      [] p = "download" -> 3
      [] p = "process" -> 4
      [] p = "mux" -> 5
      [] p \in SubtitlePcs -> 6
      [] OTHER -> 7

\* C24: the stages of one run start in the order narration, probe, download,
\* normalization (ending with the concatenation), mux, subtitles, one after
\* the other: the download stage is entered only from the probe with the
\* narration synthesized and its duration known, the normalization only
\* when every source has been tried, the mux only on a concatenated video,
\* the subtitle stage only when the mux has succeeded; clips are downloaded
\* only in the download stage and normalized only in the normalization stage.
C24_StagesInOrder ==
    /\ [](/\ pc \in {"download", "process", "mux"} \cup SubtitlePcs =>
               tts_ret = "True" /\ duration > 0
          /\ pc \in {"mux"} \cup SubtitlePcs => concat_output = "video"
          /\ pc \in SubtitlePcs => muxed)
    /\ [][/\ pc' # pc /\ pc' \notin {"cleanup", "done"} =>
               \/ StageRank(pc') = StageRank(pc) + 1
               \/ pc \in SubtitlePcs /\ pc' \in SubtitlePcs
          /\ pc = "download" /\ pc' = "process" =>
               i > video_sources /\ Len(downloaded_video_paths) > 0
          /\ pc = "process" /\ pc' = "mux" => i > Len(downloaded_video_paths)
          /\ downloaded_video_paths' # downloaded_video_paths =>
               pc = "download" /\ i <= video_sources
          /\ processed_videos' # processed_videos => pc = "process"
          /\ muxed' # muxed => pc = "mux"]_vars

\* A run with several sources has gone through every stage.
C24_Witness ==
    /\ Returned
    /\ exit_path = "success"
    /\ video_sources > 1
    /\ Len(downloaded_video_paths) > 1

\* C25: every external process is run under a timeout that ends the stage,
\* so a run whose external process hangs forever still reaches a terminal
\* outcome.
C25_HungProcessStillTerminates == <>Returned

\* C26: when the subtitle stages have returned, none of the files they made
\* on the way is left in the output directory: no per-segment video and no
\* concat list of create_sequential_captions, no simple_subs.vtt of
\* create_hardcoded_subtitles, and no partial output of a failed attempt.
C26_SubtitleStagesLeaveNoTempFiles ==
    (Returned /\ muxed) =>
        /\ outdir["seq_temp"] = "absent"
        /\ outdir["seq_concat"] = "absent"
        /\ outdir["vtt"] = "absent"
        /\ \A f \in SubtitleOutputs : outdir[f] # "partial"

C28_FailsFastWithoutFfmpeg ==
    /\ ctor_pc # "prompt"
    /\ (ctor_working = {} /\ ctor_pc \in {"constructed", "raised"}) =>
           ctor_pc = "raised" /\ ctor_error = "ConfigurationError"

\* C29: whenever the request has made the video file (or the placeholder),
\* the response is success:true with a video_url and the video is a row of
\* the videos table; the file is never made and an error answered.
C29_FileCreatedMeansSuccess ==
    (ct_pc = "responded" /\ ct_file) =>
        /\ ct_response.success
        /\ ct_response.video_url
        /\ ThisSecond \in ct_videos

\* C30: every listed article whose own insert went through carries the id
\* of the row that holds that article, whatever happened to the inserts of
\* the other articles of the batch.
C30_ListedIdIsStoredId ==
    na_pc = "responded" =>
        \A j \in 1..Len(na_listing) :
            na_listing[j].article \notin na_bad =>
                na_table[na_listing[j].id] = na_listing[j].article

\* C31: create_video never raises and gives what create_video_with_narration
\* gives for the same script and clip list, a path or None.
C31_CreateVideoDelegates ==
    cv_pc = "returned" =>
        /\ cv_ret.raised = "none"
        /\ cv_ret.value = cv_inner

\* A sequence that is the first sentences of another.
LeadingSentences(kept, script) ==
    /\ Len(kept) <= Len(script)
    /\ kept = SubSeq(script, 1, Len(kept))

\* C32: when the completion has more than max_words words, generate_script
\* returns a non-empty script made of its leading whole sentences with at most
\* max_words words; a non-empty completion is never truncated to the empty
\* string.
C32_TruncationKeepsLeadingSentences ==
    (gs_pc = "returned" /\ gs_ret.kind = "script") =>
        /\ WordCount(gs_script) > gs_max_words =>
              /\ gs_ret.script # <<>>
              /\ LeadingSentences(gs_ret.script, gs_script)
              /\ WordCount(gs_ret.script) <= gs_max_words
        /\ gs_script # <<>> => gs_ret.script # <<>>

\* C33: within one run each burn-in strategy (primary burn, format-fallback
\* burn, segmented captions, fixed caption) is attempted at most once; the
\* fixed-caption command is never run twice for the same narrated video.
C33_EachStrategyAtMostOnce ==
    \A strategy \in Strategies : Count(attempted, strategy) <= 1

\* C34: whenever the call returns the sequential-captions output path, the
\* file at that path was produced by the segmented captions (the segments
\* re-concatenated), never by the fixed caption.
C34_SequentialPathHoldsSegmentedVideo ==
    (Returned /\ result = seq_output_path) =>
        outdir[seq_output_path] = "segmented"

\* C35: whenever generate_speech returns success, the non-empty file at the
\* output path was written entirely by the backend whose attempt was
\* verified; it is never the leftover of an earlier backend that failed.
C35_NarrationWrittenByVerifiedBackend ==
    tts_ret = "True" =>
        /\ audio.st = "full"
        /\ audio.by = tts_log[Len(tts_log)]

\* The word indices of some chunks, in order.
RECURSIVE WordsOf(_)
WordsOf(chunks) ==
    IF chunks = <<>> THEN <<>>
    ELSE chunks[1].words \o WordsOf(Tail(chunks))

\* The length of the chunks joined by single spaces.
RECURSIVE JoinedLength(_)
JoinedLength(chunks) ==
    IF chunks = <<>> THEN 0
    ELSE IF Len(chunks) = 1 THEN chunks[1].len
    ELSE chunks[1].len + 1 + JoinedLength(Tail(chunks))

\* The pieces are all non-empty and, joined by single spaces in order, are
\* the words of the text in their order.
Reproduces(pieces, words) ==
    /\ \A k \in 1..Len(pieces) : pieces[k].len > 0 /\ pieces[k].words # <<>>
    /\ WordsOf(pieces) = [k \in 1..Len(words) |-> k]
    /\ JoinedLength(pieces) = TextLength(words)

\* C36: for every text the chunks of generate_simple_subtitles, and the
\* wrapped lines of generate_ass_subtitles for a segment longer than a line,
\* are all non-empty and, joined by single spaces in order, reproduce the
\* words of the input in their order, also when a word of 40 or more
\* characters comes first.
C36_ChunksReproduceTheWords ==
    /\ srt_pc \in {"write", "returned"} => Reproduces(srt_chunks, srt_text)
    /\ (as_pc = "written" /\ TextLength(as_text) > LineLimit) =>
          Reproduces(as_lines, as_text)

\* C37: during one create_video_from_text run the narration is synthesized
\* exactly once: generate_speech is called a single time for the script, a
\* run that returns a video has synthesized it, and a synthesis that failed
\* makes the run fail.
C37_NarrationSynthesizedOnce ==
    /\ Len(vt_speech) <= 1
    /\ (vt_pc = "returned" /\ vt_ret.video # None) => Len(vt_speech) = 1
    /\ (vt_pc = "returned" /\ \E k \in 1..Len(vt_speech) : ~vt_speech[k]) =>
          vt_ret.video = None

\* C38: with two requests served concurrently, each request reads the rows
\* of its own query and gets the id of its own insert: the article a request
\* fetched is the one it asked for, an article that is stored is found, and
\* the script_id of a response is the id of the row that request inserted.
C38_RequestsDoNotShareResults ==
    \A t \in Threads :
        /\ db_article[t] # 0 => db_article[t] = db_req[t]
        /\ db_resp[t].status = 404 => db_req[t] \notin StoredArticles
        /\ db_resp[t].status = 200 =>
              /\ db_resp[t].script_id \in 1..Len(db_scripts)
              /\ db_scripts[db_resp[t].script_id].by = t

====
